---------------------------- MODULE Spec2Model ----------------------------
(***************************************************************************)
(* Model of the NexusWallet signing backend: the cipher module             *)
(* (backend/keymanager/crypto_utils.py), the KeyManager                    *)
(* (backend/keymanager/keyManager.py), the Account (backend/account.py),   *)
(* the Config singleton (backend/config.py) and the Wallet                 *)
(* (backend/wallet.py).                                                    *)
(*                                                                         *)
(* Byte strings are sequences of integers 0..255.  Base64 text is a        *)
(* sequence of symbols: 0..63 is the index of a character of the base64    *)
(* alphabet, PAD is '=', JUNK is any other byte value (base64.b64decode    *)
(* without validate=True discards every such byte in the same way).        *)
(*                                                                         *)
(* The primitives of the cryptography library are idealised:               *)
(*   - PBKDF2-HMAC is a function of the HMAC key block of the password     *)
(*     (the password zero-padded to the hash block size) and the salt;     *)
(*   - HMAC-SHA256 is a keyed 32-byte checksum that changes whenever a     *)
(*     single byte of the message changes or the key changes;              *)
(*   - AES-CFB is a keyed stream cipher with ciphertext feedback per       *)
(*     16-byte segment; decryption never fails.                            *)
(***************************************************************************)
EXTENDS Integers, Sequences, FiniteSets, TLC

VARIABLES
  cipher,   \* SpecCipher: inputs and outputs of aes_encrypt / aes_decrypt
  fs,       \* the file system: path -> content (or absent)
  km,       \* the KeyManager object: _private_key, address, unlocked
  last,     \* the last call made on the KeyManager and how it ended
  tampered, \* whether the environment has changed a stored file
  io,       \* SpecCrash: the write to a file that is under way
  race,     \* SpecRace: the two threads that share the KeyManager
  acct,     \* SpecAccount: the Account object and the last call made on it
  config,   \* SpecConfig: the Config singleton, the configuration files, the last call
  wallet    \* SpecWallet: the Wallet object, the wallet files, the last call

vars == <<cipher, fs, km, last, tampered, io, race, acct, config, wallet>>
kmvars == <<fs, km, last, tampered, io, race, acct, config, wallet>>

(***************************************************************************)
(* Bounds of the model.                                                    *)
(***************************************************************************)
NumPasswords == 3
NumRand == 2
MaxPlainLen == 2
MaxTamperDelta == 1
NumKmPasswords == 2
NumKmRand == 1
NumKeys == 1
NumHexInputs == 3

(***************************************************************************)
(* Program constants.                                                      *)
(***************************************************************************)
SALT_LEN == 16
IV_LEN == 16
MAC_LEN == 32
KEY_LEN == 32
HMAC_BLOCK == 64
PAD == 64
JUNK == 65

(***************************************************************************)
(* Results of calls: a returned value or a raised exception.               *)
(***************************************************************************)
Ok(v) == [kind |-> "ok", val |-> v, why |-> ""]
Raise(k, w) == [kind |-> k, val |-> <<>>, why |-> w]

Min(a, b) == IF a < b THEN a ELSE b

Zeros(n) == [i \in 1..n |-> 0]

Take(s, n) == SubSeq(s, 1, Min(n, Len(s)))

(***************************************************************************)
(* str.encode(): UTF-8; a lone surrogate cannot be encoded.                *)
(***************************************************************************)
IsSurrogate(c) == c >= 55296 /\ c <= 57343

RECURSIVE utf8(_)
utf8(s) ==
  IF s = <<>> THEN <<>>
  ELSE LET c == Head(s)
           b == IF c < 128 THEN <<c>>
                ELSE IF c < 2048 THEN <<192 + (c \div 64), 128 + (c % 64)>>
                ELSE <<224 + (c \div 4096), 128 + ((c \div 64) % 64), 128 + (c % 64)>>
       IN  b \o utf8(Tail(s))

str_encode(s) ==
  IF \E i \in 1..Len(s) : IsSurrogate(s[i])
  THEN Raise("UnicodeEncodeError", "surrogates not allowed")
  ELSE Ok(utf8(s))

(***************************************************************************)
(* base64.b64encode / base64.b64decode (binascii.a2b_base64, not strict).  *)
(***************************************************************************)
b64encode(b) ==
  LET n == Len(b)
      B(j) == IF j <= n THEN b[j] ELSE 0
  IN  [k \in 1..(4 * ((n + 2) \div 3)) |->
         LET i == 3 * ((k - 1) \div 4) + 1
             r == (k - 1) % 4
         IN  IF r = 0 THEN b[i] \div 4
             ELSE IF r = 1 THEN (b[i] % 4) * 16 + (B(i + 1) \div 16)
             ELSE IF r = 2
             THEN IF i + 1 > n THEN PAD
                  ELSE (b[i + 1] % 16) * 4 + (B(i + 2) \div 64)
             ELSE IF i + 2 > n THEN PAD ELSE b[i + 2] % 64]

IsData(c) == c < 64

\* Number of alphabet characters before position i, modulo 4: the decoder's
\* quad_pos when it reads t[i].
QuadPos(t, i) == Len(SelectSeq(SubSeq(t, 1, i - 1), IsData)) % 4

\* The decoder stops at a '=' that completes the padding of a quad: one pad
\* after three characters, or the second pad after two characters.
StopsAt(t, i) ==
  /\ t[i] = PAD
  /\ \/ QuadPos(t, i) = 3
     \/ /\ QuadPos(t, i) = 2
        /\ \E j \in 1..(i - 1) :
              t[j] = PAD /\ \A k \in (j + 1)..(i - 1) : ~IsData(t[k])

b64decode(t) ==
  LET stops == {i \in 1..Len(t) : StopsAt(t, i)}
      end == IF stops = {} THEN Len(t)
             ELSE (CHOOSE i \in stops : \A j \in stops : i <= j) - 1
      d == SelectSeq(SubSeq(t, 1, end), IsData)
      rem == Len(d) % 4
      nout == 3 * (Len(d) \div 4)
              + (IF rem = 2 THEN 1 ELSE IF rem = 3 THEN 2 ELSE 0)
  IN  IF stops = {} /\ rem # 0
      THEN Raise("binascii.Error", "Incorrect padding")
      ELSE Ok([k \in 1..nout |->
                 LET g == 4 * ((k - 1) \div 3)
                     r == (k - 1) % 3
                 IN  IF r = 0 THEN d[g + 1] * 4 + (d[g + 2] \div 16)
                     ELSE IF r = 1 THEN (d[g + 2] % 16) * 16 + (d[g + 3] \div 4)
                     ELSE (d[g + 3] % 4) * 64 + d[g + 4]])

(***************************************************************************)
(* Idealised primitives.                                                   *)
(***************************************************************************)
RECURSIVE StripZeros(_)
StripZeros(k) ==
  IF k # <<>> /\ k[Len(k)] = 0 THEN StripZeros(SubSeq(k, 1, Len(k) - 1))
  ELSE k

\* The key HMAC really uses: the key zero-padded to the block size.
HmacKeyBlock(k) ==
  LET s == StripZeros(k) IN s \o Zeros(HMAC_BLOCK - Min(Len(s), HMAC_BLOCK))

RECURSIVE WeightedSum(_, _)
WeightedSum(f, i) ==
  IF i = 0 THEN 0 ELSE ((2 * i + 1) * f[i] + WeightedSum(f, i - 1)) % 256

\* Every byte of the derived key depends on every byte of the key block and
\* of the salt.
PBKDF2HMAC(pw, salt, length) ==
  LET kb == Take(HmacKeyBlock(pw), 16)
      mix == WeightedSum(kb, 16) + 3 * WeightedSum(salt, Len(salt))
  IN  [i \in 1..length |->
         (kb[((i - 1) % 16) + 1] + salt[((i - 1) % Len(salt)) + 1]
          + (2 * i + 1) * mix) % 256]

\* A keyed checksum over 32 lanes of the message (messages of at most 160
\* bytes); the weights are odd, so a change of one byte changes its lane.
HMAC_SHA256(key, msg) ==
  LET n == Len(msg)
      M(j) == IF j <= n THEN msg[j] ELSE 0
  IN  [i \in 1..MAC_LEN |->
         (key[i] + n + M(i) + 3 * M(i + 32) + 5 * M(i + 64) + 7 * M(i + 96)
          + 9 * M(i + 128)) % 256]

BlockCipher(key, i, x) == (key[i] + 5 * key[i + 16] + 3 * x + i) % 256

RECURSIVE CFB_encrypt(_, _, _)
CFB_encrypt(key, prev, data) ==
  IF data = <<>> THEN <<>>
  ELSE LET n == Min(16, Len(data))
           c == [i \in 1..n |-> (data[i] + BlockCipher(key, i, prev[i])) % 256]
       IN  c \o CFB_encrypt(key, c, SubSeq(data, n + 1, Len(data)))

\* A decryptor that is not given the iv of the blob.
CFB_decrypt_zero_iv(key, iv, c) ==
  [i \in 1..Len(c) |->
     LET prev == IF i <= 16 THEN 0 ELSE c[i - 16]
         ks == BlockCipher(key, ((i - 1) % 16) + 1, prev)
     IN  (c[i] + 256 - ks) % 256]

CFB_decrypt(key, iv, c) ==
  [i \in 1..Len(c) |->
     LET prev == IF i <= 16 THEN iv[i] ELSE c[i - 16]
         ks == BlockCipher(key, ((i - 1) % 16) + 1, prev)
     IN  (c[i] + 256 - ks) % 256]

(***************************************************************************)
(* crypto_utils.py                                                         *)
(***************************************************************************)
derive_key(password, salt, length) ==
  LET e == str_encode(password) IN
  IF e.kind # "ok" THEN Raise("CryptoError", "KDF key derivation failed")
  ELSE Ok(PBKDF2HMAC(e.val, salt, length))

aes_encrypt(data, password, salt, iv) ==
  LET key == derive_key(password, salt, KEY_LEN)
      hmac_key == derive_key(password, salt, KEY_LEN)
  IN
  IF key.kind # "ok" \/ hmac_key.kind # "ok"
  THEN Raise("CryptoError", "AES encrypt failed")
  ELSE LET ciphertext == CFB_encrypt(key.val, iv, data)
           mac == HMAC_SHA256(hmac_key.val, salt \o iv \o ciphertext)
       IN  Ok(b64encode(salt \o iv \o ciphertext \o mac))

\* aes_decrypt without the comparison of the two MACs.
aes_decrypt_no_mac(enc_data, password) ==
  LET d == b64decode(enc_data) IN
  IF d.kind # "ok"
  THEN Raise("CryptoError", "Base64 decode failed (corrupted keystore).")
  ELSE LET raw == d.val IN
    IF Len(raw) < SALT_LEN + IV_LEN + MAC_LEN
    THEN Raise("CryptoError", "Encrypted data too short or invalid.")
    ELSE LET salt == SubSeq(raw, 1, SALT_LEN)
             iv == SubSeq(raw, SALT_LEN + 1, SALT_LEN + IV_LEN)
             ciphertext == SubSeq(raw, SALT_LEN + IV_LEN + 1, Len(raw) - MAC_LEN)
             key == derive_key(password, salt, KEY_LEN)
         IN
         IF key.kind # "ok"
         THEN Raise("WrongPassword", "Wrong password or corrupted keystore.")
         ELSE Ok(CFB_decrypt(key.val, iv, ciphertext))

\* aes_decrypt that compares the two MACs without their last byte.
aes_decrypt_mac_prefix(enc_data, password) ==
  LET d == b64decode(enc_data) IN
  IF d.kind # "ok"
  THEN Raise("CryptoError", "Base64 decode failed (corrupted keystore).")
  ELSE LET raw == d.val IN
    IF Len(raw) < SALT_LEN + IV_LEN + MAC_LEN
    THEN Raise("CryptoError", "Encrypted data too short or invalid.")
    ELSE LET salt == SubSeq(raw, 1, SALT_LEN)
             iv == SubSeq(raw, SALT_LEN + 1, SALT_LEN + IV_LEN)
             ciphertext == SubSeq(raw, SALT_LEN + IV_LEN + 1, Len(raw) - MAC_LEN)
             mac == SubSeq(raw, Len(raw) - MAC_LEN + 1, Len(raw))
             key == derive_key(password, salt, KEY_LEN)
         IN
         IF key.kind # "ok"
         THEN Raise("WrongPassword", "Wrong password or corrupted keystore.")
         ELSE IF Take(mac, MAC_LEN - 1)
                   # Take(HMAC_SHA256(key.val, salt \o iv \o ciphertext), MAC_LEN - 1)
              THEN Raise("HMACVerificationFailed",
                         "HMAC check failed - data integrity violation.")
              ELSE Ok(CFB_decrypt(key.val, iv, ciphertext))

aes_decrypt(enc_data, password) ==
  LET d == b64decode(enc_data) IN
  IF d.kind # "ok"
  THEN Raise("CryptoError", "Base64 decode failed (corrupted keystore).")
  ELSE LET raw == d.val IN
    IF Len(raw) < SALT_LEN + IV_LEN + MAC_LEN
    THEN Raise("CryptoError", "Encrypted data too short or invalid.")
    ELSE LET salt == SubSeq(raw, 1, SALT_LEN)
             iv == SubSeq(raw, SALT_LEN + 1, SALT_LEN + IV_LEN)
             ciphertext == SubSeq(raw, SALT_LEN + IV_LEN + 1, Len(raw) - MAC_LEN)
             mac == SubSeq(raw, Len(raw) - MAC_LEN + 1, Len(raw))
             key == derive_key(password, salt, KEY_LEN)
             hmac_key == derive_key(password, salt, KEY_LEN)
         IN
         IF key.kind # "ok" \/ hmac_key.kind # "ok"
         THEN Raise("WrongPassword", "Wrong password or corrupted keystore.")
         ELSE LET real_mac == HMAC_SHA256(hmac_key.val, salt \o iv \o ciphertext) IN
              IF mac # real_mac
              THEN Raise("HMACVerificationFailed",
                         "HMAC check failed - data integrity violation.")
              ELSE Ok(CFB_decrypt(key.val, iv, ciphertext))

(***************************************************************************)
(* The libraries the KeyManager calls.                                     *)
(***************************************************************************)
None == [some |-> FALSE, val |-> <<>>]
Some(v) == [some |-> TRUE, val |-> v]

HEX_X == 16
HEX_BAD == 17

\* str.replace("0x", ""): every occurrence of "0x" is removed, left to right.
RECURSIVE replace_0x(_)
replace_0x(h) ==
  IF Len(h) < 2 THEN h
  ELSE IF h[1] = 0 /\ h[2] = HEX_X THEN replace_0x(SubSeq(h, 3, Len(h)))
  ELSE <<h[1]>> \o replace_0x(Tail(h))

\* bytes.fromhex: pairs of hexadecimal digits.
bytes_fromhex(h) ==
  IF (\E i \in 1..Len(h) : h[i] > 15) \/ Len(h) % 2 # 0
  THEN Raise("ValueError", "non-hexadecimal number found in fromhex() arg")
  ELSE Ok([i \in 1..(Len(h) \div 2) |-> 16 * h[2 * i - 1] + h[2 * i]])

bytes_hex(b) ==
  [i \in 1..(2 * Len(b)) |->
     IF i % 2 = 1 THEN b[(i + 1) \div 2] \div 16 ELSE b[i \div 2] % 16]

\* The order of the secp256k1 group, big-endian.
SECP256K1_N ==
  << 255, 255, 255, 255, 255, 255, 255, 255, 255, 255, 255, 255, 255, 255, 255, 254,
     186, 174, 220, 230, 175, 72, 160, 59, 191, 210, 94, 140, 208, 54, 65, 65 >>

BytesLess(a, b) ==
  \E i \in 1..Len(a) : a[i] < b[i] /\ \A j \in 1..(i - 1) : a[j] = b[j]

\* Account.from_key accepts 32 bytes that encode an integer in 1..N-1; it
\* raises on anything else, None included.
IsValidKey(k) ==
  /\ k.some
  /\ Len(k.val) = KEY_LEN
  /\ k.val # Zeros(KEY_LEN)
  /\ BytesLess(k.val, SECP256K1_N)

\* The address of a key: idealised as collision-free.
AddressOf(key) == [i \in 1..20 |-> (key[i] + 3 * key[i + 12] + 7) % 256]

\* A recoverable ECDSA signature r || s || v (65 bytes), idealised as a
\* function of the key and the 32-byte digest that is collision-free in both.
Signature(key, digest) ==
  [i \in 1..32 |-> (3 * key[i] + 1) % 256]
  \o [i \in 1..32 |-> (key[i] + digest[i]) % 256] \o <<27>>

\* The 32-byte digest of a byte string (keccak), idealised.
Digest(b) ==
  LET f == [i \in 1..32 |-> IF i <= Len(b) THEN b[i] ELSE 0]
      mix == WeightedSum(f, 32)
  IN  [i \in 1..32 |-> (f[i] + Len(b) + (2 * i + 1) * mix) % 256]

\* encode_defunct and the hash of the prefixed message that is signed.
encode_defunct(message) == Digest(<<25>> \o message)

\* The fields a transaction dict needs for Account.sign_transaction.
RequiredTxFields == {"nonce", "gasPrice", "gas", "to", "value", "data"}

(***************************************************************************)
(* Input domains.                                                          *)
(***************************************************************************)
PasswordPool == << <<97>>, <<98>>, <<97, 0>>, <<55296>>, <<98, 0>>, <<233>> >>
Passwords == {PasswordPool[i] : i \in 1..Min(NumPasswords, Len(PasswordPool))}

Rand16(i) == [j \in 1..16 |-> (17 * i + 29 * j) % 256]
Randoms == {Rand16(i) : i \in 1..NumRand}

PlainBytes == {0, 255}
Plaintexts == UNION {[1..n -> PlainBytes] : n \in 0..MaxPlainLen}

KmPasswords == {PasswordPool[i] : i \in 1..Min(NumKmPasswords, Len(PasswordPool))}
\* The (salt, iv) pairs os.urandom may yield in Spec.
KmRandoms == {[salt |-> Rand16(i), iv |-> Rand16(i + 1)] : i \in 1..NumKmRand}

Key32(i) == [j \in 1..KEY_LEN |-> i]
NewKeys == {Key32(i) : i \in 1..NumKeys}

\* Arguments of import_private_key: "0x0202..02" (a valid key), "00" (one
\* byte: not a key), "zz" (not hexadecimal), "1", 32 zero bytes, "".
HexPool == << <<0, HEX_X>> \o bytes_hex(Key32(2)), <<0, 0>>, <<HEX_BAD, HEX_BAD>>,
              <<1>>, bytes_hex(Zeros(KEY_LEN)), <<>> >>
HexInputs == {HexPool[i] : i \in 1..Min(NumHexInputs, Len(HexPool))}

Messages == {<<104, 105>>}
TxInputs == {[fields |-> RequiredTxFields \cup {"chainId"}, payload |-> <<1>>],
             [fields |-> {}, payload |-> <<>>]}
HashInputs == {Zeros(32), <<0>>}

\* In Spec the environment changes the last byte of a file, to another
\* character of the alphabet or to a byte outside it.
TamperPositions(t) == {Len(t)}
KmTamperValues(orig) == {(orig + 1) % 64, JUNK} \ {orig}

TamperValues(orig) ==
  ({(orig + d) % 64 : d \in 1..MaxTamperDelta} \cup {PAD, JUNK}) \ {orig}

(***************************************************************************)
(* aes_encrypt and aes_decrypt on the byte strings the KeyManager handles  *)
(* in Spec, evaluated once; on any other argument the function is applied. *)
(***************************************************************************)
KmPlain ==
  NewKeys \cup {bytes_fromhex(replace_0x(h)).val :
                  h \in {x \in HexInputs : bytes_fromhex(replace_0x(x)).kind = "ok"}}

\* f[x] where f is defined, and otherwise the value computed directly.
Lookup(f, x, direct) == IF x \in DOMAIN f THEN f[x] ELSE direct

Returned(f) == {r.val : r \in {f[x] : x \in DOMAIN f} \cap {Ok(f[x].val) : x \in DOMAIN f}}

EncryptResults ==
  [data \in KmPlain, password \in KmPasswords, r \in KmRandoms |->
     aes_encrypt(data, password, r.salt, r.iv)]

aes_encrypt_km(data, password, salt, iv) ==
  Lookup(EncryptResults, <<data, password, [salt |-> salt, iv |-> iv]>>,
         aes_encrypt(data, password, salt, iv))

\* The blob and what the environment may change it to.
FilesOf(b) ==
  {b} \cup UNION {{[b EXCEPT ![i] = v] : v \in KmTamperValues(b[i])} :
                    i \in TamperPositions(b)}

KmFiles == UNION {FilesOf(b) : b \in Returned(EncryptResults)}

DecryptResults ==
  [enc_data \in KmFiles, password \in KmPasswords |-> aes_decrypt(enc_data, password)]

aes_decrypt_km(enc_data, password) ==
  Lookup(DecryptResults, <<enc_data, password>>, aes_decrypt(enc_data, password))

(***************************************************************************)
(* keyManager.py.  A handler is a function of the state [fs, km] and its   *)
(* arguments; it yields the result of the call and the state it leaves.    *)
(* The values os.urandom and Account.create draw are arguments.            *)
(***************************************************************************)
storage_path == "keystore.json"
other_path == "backup.json"
Paths == {storage_path, other_path}

KeyManager_init == [_private_key |-> None, address |-> None, unlocked |-> FALSE]

\* A call that leaves the state as it was.  wrote is the set of paths the
\* call opened with open(path, "wb").
Outcome(res, s) == [res |-> res, fs |-> s.fs, km |-> s.km, wrote |-> {}]

\* create_new_key from the result of aes_encrypt on.
create_new_key_encrypted(s, acct_key, encrypted) ==
  IF encrypted.kind # "ok"
  THEN Outcome(Raise("CryptoError", "Create key failed"), s)
  ELSE [res |-> Ok(AddressOf(acct_key)),
        fs |-> [s.fs EXCEPT ![storage_path] = Some(encrypted.val)],
        km |-> [s.km EXCEPT !.address = Some(AddressOf(acct_key))],
        wrote |-> {storage_path}]

\* create_new_key that reports the address of another account than the one
\* whose key it stores.
create_new_key_other_account(s, password, acct_key, salt, iv) ==
  create_new_key_encrypted(s, [acct_key EXCEPT ![1] = (@ + 1) % 256],
                           aes_encrypt_km(acct_key, password, salt, iv))

create_new_key(s, password, acct_key, salt, iv) ==
  create_new_key_encrypted(s, acct_key, aes_encrypt_km(acct_key, password, salt, iv))

\* import_private_key from the result of aes_encrypt on.
import_private_key_encrypted(s, key_bytes, encrypted) ==
  IF encrypted.kind # "ok"
  THEN Outcome(Raise("CryptoError", "Import private key failed"), s)
  ELSE LET written == [s.fs EXCEPT ![storage_path] = Some(encrypted.val)] IN
    IF ~IsValidKey(Some(key_bytes))
    THEN [res |-> Raise("CryptoError", "Import private key failed"),
          fs |-> written, km |-> s.km, wrote |-> {storage_path}]
    ELSE [res |-> Ok(AddressOf(key_bytes)),
          fs |-> written,
          km |-> [s.km EXCEPT !.address = Some(AddressOf(key_bytes))],
          wrote |-> {storage_path}]

import_private_key(s, private_key_hex, password, salt, iv) ==
  LET private_key_bytes == bytes_fromhex(replace_0x(private_key_hex)) IN
  IF private_key_bytes.kind # "ok"
  THEN Outcome(Raise("CryptoError", "Import private key failed"), s)
  ELSE import_private_key_encrypted(
         s, private_key_bytes.val,
         aes_encrypt_km(private_key_bytes.val, password, salt, iv))

\* unlock from the result of aes_decrypt on.
unlock_decrypted(s, private_key_bytes) ==
  IF private_key_bytes.kind = "WrongPassword"
  THEN Outcome(Raise("WrongPassword", "Incorrect password."), s)
  ELSE IF private_key_bytes.kind = "HMACVerificationFailed"
  THEN Outcome(Raise("HMACVerificationFailed",
                     "Keystore integrity check failed - file tampered."), s)
  ELSE IF private_key_bytes.kind # "ok"
  THEN Outcome(Raise("CryptoError", "Unlock failed"), s)
  ELSE LET stored == [s.km EXCEPT !._private_key = Some(private_key_bytes.val)] IN
    IF ~IsValidKey(Some(private_key_bytes.val))
    THEN [res |-> Raise("ValueError", "invalid private key"),
          fs |-> s.fs, km |-> stored, wrote |-> {}]
    ELSE [res |-> Ok(AddressOf(private_key_bytes.val)),
          fs |-> s.fs,
          km |-> [stored EXCEPT !.address = Some(AddressOf(private_key_bytes.val)),
                                !.unlocked = TRUE],
          wrote |-> {}]

unlock(s, password) ==
  IF ~s.fs[storage_path].some
  THEN Outcome(Raise("FileNotFoundError", "Keystore not found."), s)
  ELSE unlock_decrypted(s, aes_decrypt_km(s.fs[storage_path].val, password))

\* lock that clears the flag and leaves the key in memory.
lock_keeps_key(s) ==
  [res |-> Ok(<<>>), fs |-> s.fs,
   km |-> [s.km EXCEPT !.unlocked = FALSE],
   wrote |-> {}]

lock(s) ==
  [res |-> Ok(<<>>), fs |-> s.fs,
   km |-> [s.km EXCEPT !._private_key = None, !.unlocked = FALSE],
   wrote |-> {}]

\* export_keystore that drops the last byte of the blob.
export_keystore_truncated(s, dest_path) ==
  IF ~s.fs[storage_path].some
  THEN Outcome(Raise("FileNotFoundError", "Keystore not found."), s)
  ELSE [res |-> Ok(<<>>),
        fs |-> [s.fs EXCEPT ![dest_path] =
                  Some(SubSeq(s.fs[storage_path].val, 1,
                              Len(s.fs[storage_path].val) - 1))],
        km |-> s.km,
        wrote |-> {dest_path}]

export_keystore(s, dest_path) ==
  IF ~s.fs[storage_path].some
  THEN Outcome(Raise("FileNotFoundError", "Keystore not found."), s)
  ELSE [res |-> Ok(<<>>),
        fs |-> [s.fs EXCEPT ![dest_path] = s.fs[storage_path]],
        km |-> s.km,
        wrote |-> {dest_path}]

\* import_keystore from the result of aes_decrypt on.
import_keystore_decrypted(s, data, private_key) ==
  IF private_key.kind = "WrongPassword"
  THEN Outcome(Raise("WrongPassword", "Incorrect password."), s)
  ELSE IF private_key.kind = "HMACVerificationFailed"
  THEN Outcome(Raise("HMACVerificationFailed", "Keystore has been tampered."), s)
  ELSE IF private_key.kind # "ok" \/ ~IsValidKey(Some(private_key.val))
  THEN Outcome(Raise("CryptoError", "Import keystore failed"), s)
  ELSE [res |-> Ok(AddressOf(private_key.val)),
        fs |-> [s.fs EXCEPT ![storage_path] = Some(data)],
        km |-> [s.km EXCEPT !.address = Some(AddressOf(private_key.val))],
        wrote |-> {storage_path}]

\* import_keystore that copies the file before it has validated it.
import_keystore_copy_first(s, src_path, password) ==
  IF ~s.fs[src_path].some
  THEN Outcome(Raise("CryptoError", "Import keystore failed"), s)
  ELSE LET data == s.fs[src_path].val
           private_key == aes_decrypt_km(data, password)
           copied == [s.fs EXCEPT ![storage_path] = Some(data)]
       IN
    IF private_key.kind = "WrongPassword"
    THEN [res |-> Raise("WrongPassword", "Incorrect password."),
          fs |-> copied, km |-> s.km, wrote |-> {storage_path}]
    ELSE IF private_key.kind = "HMACVerificationFailed"
    THEN [res |-> Raise("HMACVerificationFailed", "Keystore has been tampered."),
          fs |-> copied, km |-> s.km, wrote |-> {storage_path}]
    ELSE IF private_key.kind # "ok" \/ ~IsValidKey(Some(private_key.val))
    THEN [res |-> Raise("CryptoError", "Import keystore failed"),
          fs |-> copied, km |-> s.km, wrote |-> {storage_path}]
    ELSE [res |-> Ok(AddressOf(private_key.val)),
          fs |-> copied,
          km |-> [s.km EXCEPT !.address = Some(AddressOf(private_key.val))],
          wrote |-> {storage_path}]

import_keystore(s, src_path, password) ==
  IF ~s.fs[src_path].some
  THEN Outcome(Raise("CryptoError", "Import keystore failed"), s)
  ELSE import_keystore_decrypted(s, s.fs[src_path].val,
                                 aes_decrypt_km(s.fs[src_path].val, password))

\* sign_message without the lock check.
sign_message_unchecked(s, message) ==
  IF ~IsValidKey(s.km._private_key)
  THEN Outcome(Raise("CryptoError", "Sign message failed"), s)
  ELSE Outcome(Ok(Signature(s.km._private_key.val, encode_defunct(message))), s)

sign_message(s, message) ==
  IF ~s.km.unlocked
  THEN Outcome(Raise("PermissionError", "Wallet is locked."), s)
  ELSE IF ~IsValidKey(s.km._private_key)
  THEN Outcome(Raise("CryptoError", "Sign message failed"), s)
  ELSE Outcome(Ok(Signature(s.km._private_key.val, encode_defunct(message))), s)

sign_transaction(s, tx) ==
  IF ~s.km.unlocked
  THEN Outcome(Raise("PermissionError", "Wallet is locked."), s)
  ELSE IF ~IsValidKey(s.km._private_key) \/ ~(RequiredTxFields \subseteq tx.fields)
  THEN Outcome(Raise("CryptoError", "Sign transaction failed"), s)
  ELSE Outcome(Ok(Signature(s.km._private_key.val, Digest(tx.payload))), s)

sign_userop(s, userop_hash) ==
  IF ~s.km.unlocked
  THEN Outcome(Raise("PermissionError", "Wallet is locked."), s)
  ELSE IF ~IsValidKey(s.km._private_key) \/ Len(userop_hash) # 32
  THEN Outcome(Raise("CryptoError", "Sign UserOperation failed"), s)
  ELSE Outcome(Ok(Signature(s.km._private_key.val, userop_hash)), s)

get_address(s) == s.km.address

(***************************************************************************)
(* account.py.  A Python int that is not negative is the sequence of its   *)
(* big-endian bytes without leading zeros (0 is the empty sequence), so    *)
(* that values of 128 and 256 bits and more are exact.                     *)
(***************************************************************************)
HALF_BITS == 128
UINT_LEN == 32

NumInts == 4
MaxOwners == 2
MaxGuardians == 1

Max(a, b) == IF a < b THEN b ELSE a

Ones(n) == [i \in 1..n |-> 255]

RECURSIVE IntNorm(_)
IntNorm(b) == IF b # <<>> /\ b[1] = 0 THEN IntNorm(Tail(b)) ELSE b

PadLeft(b, n) == Zeros(n - Len(b)) \o b

RECURSIVE BitOr(_, _)
BitOr(x, y) ==
  IF x = 0 THEN y
  ELSE IF y = 0 THEN x
  ELSE 2 * BitOr(x \div 2, y \div 2) + (IF x % 2 = 1 \/ y % 2 = 1 THEN 1 ELSE 0)

\* a | b
int_or(a, b) ==
  IntNorm([i \in 1..Max(Len(a), Len(b)) |->
             BitOr(PadLeft(a, Max(Len(a), Len(b)))[i],
                   PadLeft(b, Max(Len(a), Len(b)))[i])])

\* a << bits, for a number of bits that is a multiple of 8
int_lshift(a, bits) == IF a = <<>> THEN <<>> ELSE a \o Zeros(bits \div 8)

\* a.to_bytes(length, 'big')
int_to_bytes(a, length) ==
  IF Len(a) > length THEN Raise("OverflowError", "int too big to convert")
  ELSE Ok(PadLeft(a, length))

\* int.from_bytes(b, 'big')
int_from_bytes(b) == IntNorm(b)

\* Python truth value of an optional int: None and 0 are false.
Truthy(x) == x.some /\ x.val # <<>>

\* x or y
py_or(x, y) == IF Truthy(x) THEN x.val ELSE y

\* Packing with the two halves exchanged.
pack_halves_swapped(high, low) == int_or(int_lshift(low, HALF_BITS), high)

\* (high << 128) | low
pack_halves(high, low) == int_or(int_lshift(high, HALF_BITS), low)

\* The two 128-bit halves of a packed 32-byte field.
upper_half(b) == int_from_bytes(SubSeq(b, 1, UINT_LEN \div 2))
lower_half(b) == int_from_bytes(SubSeq(b, UINT_LEN \div 2 + 1, UINT_LEN))

_validate_config(self) ==
  IF self.threshold <= 0 \/ self.threshold > Len(self.owners)
  THEN Raise("ValueError", "Invalid threshold")
  ELSE IF self.guardians # <<>>
          /\ (self.guardian_threshold <= 0
              \/ self.guardian_threshold > Len(self.guardians))
  THEN Raise("ValueError", "Invalid guardian threshold")
  ELSE IF self.guardians = <<>> /\ self.guardian_threshold > 0
  THEN Raise("ValueError", "Guardian threshold must be 0 when no guardians")
  ELSE Ok(self)

\* Account(...): guardians is None or a list.
Account_init(contract_address, owners, threshold, guardians, guardian_threshold) ==
  _validate_config(
    [contract_address |-> contract_address,
     owners |-> owners,
     threshold |-> threshold,
     guardians |-> IF guardians.some THEN guardians.val ELSE <<>>,
     guardian_threshold |-> guardian_threshold])

\* What the configuration and the RPC node answer during one call:
\* the entry point of the network, its getNonce and the gas prices.
get_nonce(self, rpc) ==
  IF rpc.entry_point.kind # "ok" THEN rpc.entry_point ELSE rpc.nonce

_get_gas_prices(self, rpc) == rpc.gas

\* Lines 171-178: the nonce and the two fees after the defaults, and the
\* calls made to obtain them.
resolve_nonce(self, nonce, rpc) ==
  IF nonce.some THEN [res |-> Ok(nonce.val), calls |-> {}]
  ELSE [res |-> get_nonce(self, rpc), calls |-> {"get_nonce"}]

resolve_fees(self, max_fee_per_gas, max_priority_fee_per_gas, rpc) ==
  IF max_fee_per_gas.some /\ max_priority_fee_per_gas.some
  THEN [res |-> Ok([maxFeePerGas |-> max_fee_per_gas.val,
                    maxPriorityFeePerGas |-> max_priority_fee_per_gas.val]),
        calls |-> {}]
  ELSE IF _get_gas_prices(self, rpc).kind # "ok"
  THEN [res |-> _get_gas_prices(self, rpc), calls |-> {"_get_gas_prices"}]
  ELSE [res |-> Ok([maxFeePerGas |->
                      py_or(max_fee_per_gas,
                            _get_gas_prices(self, rpc).val.maxFeePerGas),
                    maxPriorityFeePerGas |->
                      py_or(max_priority_fee_per_gas,
                            _get_gas_prices(self, rpc).val.maxPriorityFeePerGas)]),
        calls |-> {"_get_gas_prices"}]

\* Lines 186-198, with the two packed fields encoded.
build_user_operation_packed(self, call_data, nonce, pre_verification_gas, paymaster_and_data, signature, account_gas_limits, gas_fees) ==
  IF account_gas_limits.kind # "ok" THEN account_gas_limits
  ELSE IF gas_fees.kind # "ok" THEN gas_fees
  ELSE Ok([sender |-> self.contract_address,
           nonce |-> nonce,
           initCode |-> <<>>,
           callData |-> call_data,
           accountGasLimits |-> account_gas_limits.val,
           preVerificationGas |-> pre_verification_gas,
           gasFees |-> gas_fees.val,
           paymasterAndData |-> paymaster_and_data,
           signature |-> signature])

\* Lines 180-198, with the nonce and the fees resolved.
build_user_operation_resolved(self, call_data, nonce, fees, call_gas_limit, verification_gas_limit, pre_verification_gas, paymaster_and_data, signature) ==
  IF nonce.kind # "ok" THEN nonce
  ELSE IF fees.kind # "ok" THEN fees
  ELSE build_user_operation_packed(
         self, call_data, nonce.val, pre_verification_gas, paymaster_and_data,
         signature,
         int_to_bytes(pack_halves(verification_gas_limit, call_gas_limit), UINT_LEN),
         int_to_bytes(pack_halves(fees.val.maxPriorityFeePerGas,
                                  fees.val.maxFeePerGas), UINT_LEN))

\* The fees are not asked for when get_nonce has raised.
build_user_operation(self, call_data, nonce, max_fee_per_gas, max_priority_fee_per_gas, call_gas_limit, verification_gas_limit, pre_verification_gas, paymaster_and_data, signature, rpc) ==
  IF resolve_nonce(self, nonce, rpc).res.kind # "ok"
  THEN [res |-> resolve_nonce(self, nonce, rpc).res,
        calls |-> resolve_nonce(self, nonce, rpc).calls]
  ELSE [res |-> build_user_operation_resolved(
                  self, call_data, resolve_nonce(self, nonce, rpc).res,
                  resolve_fees(self, max_fee_per_gas, max_priority_fee_per_gas, rpc).res,
                  call_gas_limit, verification_gas_limit, pre_verification_gas,
                  paymaster_and_data, signature),
        calls |-> resolve_nonce(self, nonce, rpc).calls
                  \cup resolve_fees(self, max_fee_per_gas,
                                    max_priority_fee_per_gas, rpc).calls]

\* The byte string get_user_op_hash hashes (lines 219-227).
packed_data_joined(self, user_op, nonce, preVerificationGas) ==
  IF nonce.kind # "ok" THEN nonce
  ELSE IF preVerificationGas.kind # "ok" THEN preVerificationGas
  ELSE Ok(self.contract_address \o nonce.val \o user_op.callData
          \o user_op.accountGasLimits \o preVerificationGas.val
          \o user_op.gasFees \o user_op.paymasterAndData)

packed_data(self, user_op) ==
  packed_data_joined(self, user_op,
                     int_to_bytes(user_op.nonce, UINT_LEN),
                     int_to_bytes(user_op.preVerificationGas, UINT_LEN))

get_user_op_hash_packed(packed) ==
  IF packed.kind # "ok" THEN packed ELSE Ok(Digest(packed.val))

get_user_op_hash(self, user_op, rpc) ==
  IF rpc.entry_point.kind # "ok" THEN rpc.entry_point
  ELSE get_user_op_hash_packed(packed_data(self, user_op))

(***************************************************************************)
(* Inputs of the Account operations.                                       *)
(***************************************************************************)
\* 0, 2^128 - 1, 2^128, 258, 2^256
IntPool == << <<>>, Ones(16), <<1>> \o Zeros(16), <<1, 2>>, <<1>> \o Zeros(32) >>
IntValues == {IntPool[i] : i \in 1..Min(NumInts, Len(IntPool))}
OptionalInts == {None} \cup {Some(v) : v \in IntValues}
NonceValues == {None, Some(<<>>), Some(<<1>>)}
ByteStrings == {<<>>, <<0>>}
CallDatas == {<<0>>}

AccountAddress == [i \in 1..20 |-> 170]
OwnerAddress(i) == [j \in 1..20 |-> i]
OwnerLists == {[j \in 1..n |-> OwnerAddress(j)] : n \in 0..MaxOwners}
GuardianLists ==
  {None} \cup {Some([j \in 1..n |-> OwnerAddress(16 + j)]) : n \in 0..MaxGuardians}
Thresholds == -1..(MaxOwners + 1)
GuardianThresholds == -1..(MaxGuardians + 1)
PreVerificationGas == <<82, 8>>

RpcAnswers ==
  {[entry_point |-> Ok(OwnerAddress(14)), nonce |-> Ok(<<7>>),
    gas |-> Ok([maxFeePerGas |-> <<5>>, maxPriorityFeePerGas |-> <<3>>])],
   [entry_point |-> Ok(OwnerAddress(14)),
    nonce |-> Raise("ConnectionError", "Cannot connect to RPC"),
    gas |-> Raise("ConnectionError", "Cannot connect to RPC")],
   [entry_point |-> Raise("KeyError", "Network not configured"), nonce |-> Ok(<<7>>),
    gas |-> Ok([maxFeePerGas |-> <<5>>, maxPriorityFeePerGas |-> <<3>>])]}

\* Operation records a caller may hand to get_user_op_hash.
PackedFields == {Zeros(32), Zeros(31) \o <<1>>}
UserOps ==
  [sender : {AccountAddress}, nonce : {<<>>, <<1>>}, initCode : ByteStrings,
   callData : ByteStrings, accountGasLimits : PackedFields,
   preVerificationGas : {<<>>, <<1>>}, gasFees : PackedFields,
   paymasterAndData : ByteStrings, signature : {<<>>, <<9>>}]

(***************************************************************************)
(* config.py: NetworkConfig and the Config singleton.                      *)
(***************************************************************************)
\* Optional[str]
NoStr == [some |-> FALSE, val |-> ""]
SomeStr(s) == [some |-> TRUE, val |-> s]

\* "x or y" for an optional str x: None and "" are falsy.
str_or(x, y) == IF x.some /\ x.val # "" THEN x.val ELSE y

\* A dict, in insertion order: a sequence of [key, val] with distinct keys.
DictHas(d, k) == \E i \in 1..Len(d) : d[i].key = k
DictGet(d, k) == d[CHOOSE i \in 1..Len(d) : d[i].key = k].val
DictSet(d, k, v) ==
  IF DictHas(d, k)
  THEN [i \in 1..Len(d) |-> IF d[i].key = k THEN [key |-> k, val |-> v] ELSE d[i]]
  ELSE Append(d, [key |-> k, val |-> v])
DictDel(d, k) == SelectSeq(d, LAMBDA e : e.key # k)
DictKeys(d) == [i \in 1..Len(d) |-> d[i].key]

DEFAULT_CONFIG_PATH == "config.json"

\* NetworkConfig(chain_id, rpc_url, entrypoint_address, factory_address, name)
\* with __post_init__.
NetworkConfig(chain_id, rpc_url, entrypoint_address, factory_address, name) ==
  IF rpc_url = "" THEN Raise("ValueError", "RPC URL cannot be empty")
  ELSE Ok([chain_id |-> chain_id, rpc_url |-> rpc_url,
           entrypoint_address |-> entrypoint_address,
           factory_address |-> factory_address, name |-> name])

\* asdict(self), and cls(**data) on what json.load returns.
NetworkConfig_to_dict(self) ==
  [chain_id |-> self.chain_id, rpc_url |-> self.rpc_url,
   entrypoint_address |-> self.entrypoint_address,
   factory_address |-> self.factory_address, name |-> self.name]

NetworkConfig_from_dict(data) ==
  NetworkConfig(data.chain_id, data.rpc_url, data.entrypoint_address,
                data.factory_address, data.name)

\* Config._instance: None, or the one instance with its fields.
NoConfig == [some |-> FALSE, _networks |-> <<>>, config_path |-> ""]

\* The state a Config method works on is [obj |-> Config._instance,
\* fs |-> the configuration files]; a method returns [res, obj, fs].
save_to_json(s, path) ==
  [res |-> Ok(<<>>),
   obj |-> s.obj,
   fs |-> [s.fs EXCEPT ![str_or(path, s.obj.config_path)] =
             Some([i \in 1..Len(s.obj._networks) |->
                     [key |-> s.obj._networks[i].key,
                      val |-> NetworkConfig_to_dict(s.obj._networks[i].val)]])]]

\* The entries of the file up to the first one from_dict rejects.
LoadableNetworks(entries) ==
  IF \A i \in 1..Len(entries) : NetworkConfig_from_dict(entries[i].val).kind = "ok"
  THEN Len(entries)
  ELSE (CHOOSE i \in 1..Len(entries) :
          /\ NetworkConfig_from_dict(entries[i].val).kind # "ok"
          /\ \A j \in 1..(i - 1) : NetworkConfig_from_dict(entries[j].val).kind = "ok") - 1

load_from_json(s, path) ==
  LET load_path == str_or(path, s.obj.config_path) IN
  IF ~s.fs[load_path].some
  THEN [res |-> Raise("FileNotFoundError", "Config file not found"),
        obj |-> s.obj, fs |-> s.fs]
  ELSE LET entries == s.fs[load_path].val
           n == LoadableNetworks(entries)
           loaded == [i \in 1..n |->
                        [key |-> entries[i].key,
                         val |-> NetworkConfig_from_dict(entries[i].val).val]]
       IN [res |-> IF n = Len(entries) THEN Ok(<<>>)
                   ELSE NetworkConfig_from_dict(entries[n + 1].val),
           obj |-> [s.obj EXCEPT !._networks = loaded],
           fs |-> s.fs]

\* Config(config_path): __new__ returns the instance the class holds, and
\* __init__ returns at once when that instance is initialised.
Config_init(s, config_path) ==
  IF s.obj.some
  THEN [res |-> Ok(<<>>), obj |-> s.obj, fs |-> s.fs]
  ELSE LET created == [some |-> TRUE, _networks |-> <<>>,
                       config_path |-> str_or(config_path, DEFAULT_CONFIG_PATH)]
       IN IF s.fs[created.config_path].some
          THEN load_from_json([obj |-> created, fs |-> s.fs], NoStr)
          ELSE [res |-> Ok(<<>>), obj |-> created, fs |-> s.fs]

\* Config(config_path) that builds a new object for every call.
Config_init_fresh(s, config_path) ==
  Config_init([obj |-> NoConfig, fs |-> s.fs], config_path)

add_network_stored(s, network_name, network_config) ==
  [obj |-> [s.obj EXCEPT !._networks = DictSet(@, network_name, network_config)],
   fs |-> s.fs]

add_network(s, network_name, network_config, save) ==
  IF save THEN save_to_json(add_network_stored(s, network_name, network_config), NoStr)
  ELSE [res |-> Ok(<<>>),
        obj |-> add_network_stored(s, network_name, network_config).obj,
        fs |-> s.fs]

get_network(s, network_name) ==
  [res |-> IF ~DictHas(s.obj._networks, network_name)
           THEN Raise("KeyError", "Network not configured")
           ELSE Ok(DictGet(s.obj._networks, network_name)),
   obj |-> s.obj, fs |-> s.fs]

has_network(s, network_name) == DictHas(s.obj._networks, network_name)

remove_network(s, network_name, save) ==
  IF ~DictHas(s.obj._networks, network_name)
  THEN [res |-> Ok(<<>>), obj |-> s.obj, fs |-> s.fs]
  ELSE LET s1 == [obj |-> [s.obj EXCEPT !._networks = DictDel(@, network_name)],
                  fs |-> s.fs]
       IN IF save THEN save_to_json(s1, NoStr)
          ELSE [res |-> Ok(<<>>), obj |-> s1.obj, fs |-> s.fs]

\* Inputs of the Config calls.
NumNetworks == 1
NumNetworkConfigs == 2
NetworkNamePool == <<"test_network", "sepolia", "mainnet">>
NetworkNames == {NetworkNamePool[i] : i \in 1..Min(NumNetworks, Len(NetworkNamePool))}
NetworkConfigPool ==
  << NetworkConfig(1, "http://localhost:8545", NoStr, NoStr, SomeStr("Test Network")).val,
     NetworkConfig(2, "https://rpc.sepolia.org", NoStr, NoStr, NoStr).val,
     NetworkConfig(1, "https://eth.llamarpc.com", NoStr, NoStr, NoStr).val >>
NetworkConfigs ==
  {NetworkConfigPool[i] : i \in 1..Min(NumNetworkConfigs, Len(NetworkConfigPool))}
ConfigPaths == {DEFAULT_CONFIG_PATH, "test_config.json"}
ConfigPathArgs == {NoStr} \cup {SomeStr(p) : p \in ConfigPaths}

ConfigIdle ==
  [obj |-> NoConfig, fs |-> [p \in ConfigPaths |-> None], requested |-> "",
   last |-> [op |-> "init", name |-> "", cfg |-> <<>>, save |-> FALSE,
             path |-> NoStr, out |-> Ok(<<>>)]]

(***************************************************************************)
(* wallet.py: the Wallet and the Accounts it holds.                        *)
(***************************************************************************)
\* An address string after "0x": 40 characters, 0..9 the digits, 10..15 the
\* letters a..f and UPPER + 10..15 the letters A..F.
UPPER == 16
IsHexLetter(c) == c % UPPER \in 10..15
str_lower(s) == [i \in 1..Len(s) |-> IF s[i] >= UPPER THEN s[i] - UPPER ELSE s[i]]

\* EIP-55: the letter at position i is written in upper case when the i-th
\* nibble of the hash of the lower-case address is 8 or more.  The hash is
\* idealised as a function of every character of the address.
ChecksumNibble(hash, s, i) == (hash + 5 * i + 3 * s[i]) % 16

to_checksum_address(value) ==
  LET s == str_lower(value)
      hash == WeightedSum(s, Len(s))
  IN [i \in 1..Len(s) |->
        IF IsHexLetter(s[i]) /\ ChecksumNibble(hash, s, i) >= 8
        THEN s[i] + UPPER ELSE s[i]]

\* KeyManager.address: the checksummed address of the key, or None.
key_manager_address(k) ==
  IF k.address.some THEN Some(to_checksum_address(bytes_hex(k.address.val))) ELSE None

\* Account(network_name, contract_address, owners, threshold, guardians,
\* guardian_threshold, bundler_url, paymaster_url, rpc_url)
Account_new(network_name, contract_address, owners, threshold, guardians, guardian_threshold, bundler_url, paymaster_url, rpc_url) ==
  LET r == Account_init(
             to_checksum_address(contract_address),
             [i \in 1..Len(owners) |-> to_checksum_address(owners[i])],
             threshold,
             IF guardians.some
             THEN Some([i \in 1..Len(guardians.val) |->
                          to_checksum_address(guardians.val[i])])
             ELSE None,
             guardian_threshold)
  IN IF r.kind # "ok" THEN r
     ELSE Ok([network_name |-> network_name,
              contract_address |-> r.val.contract_address,
              owners |-> r.val.owners,
              threshold |-> r.val.threshold,
              guardians |-> r.val.guardians,
              guardian_threshold |-> r.val.guardian_threshold,
              bundler_url |-> bundler_url,
              paymaster_url |-> paymaster_url,
              _custom_rpc_url |-> rpc_url])

\* The dict of to_dict: a function from the eight keys to their values.
Account_to_dict(self) ==
  [network_name |-> self.network_name,
   contract_address |-> self.contract_address,
   owners |-> self.owners,
   threshold |-> self.threshold,
   guardians |-> self.guardians,
   guardian_threshold |-> self.guardian_threshold,
   bundler_url |-> self.bundler_url,
   paymaster_url |-> self.paymaster_url]

AccountParams ==
  {"network_name", "contract_address", "owners", "threshold", "guardians",
   "guardian_threshold", "bundler_url", "paymaster_url", "rpc_url"}
RequiredAccountParams == {"network_name", "contract_address", "owners", "threshold"}

\* cls(**data): a key that is no parameter, or a missing required one, is a
\* TypeError; the parameters left out take their defaults.
Account_from_dict(data) ==
  IF ~(DOMAIN data \subseteq AccountParams) \/ ~(RequiredAccountParams \subseteq DOMAIN data)
  THEN Raise("TypeError", "__init__() got an unexpected or a missing argument")
  ELSE Account_new(
         data.network_name, data.contract_address, data.owners, data.threshold,
         IF "guardians" \in DOMAIN data THEN Some(data.guardians) ELSE None,
         IF "guardian_threshold" \in DOMAIN data THEN data.guardian_threshold ELSE 0,
         IF "bundler_url" \in DOMAIN data THEN data.bundler_url ELSE NoStr,
         IF "paymaster_url" \in DOMAIN data THEN data.paymaster_url ELSE NoStr,
         IF "rpc_url" \in DOMAIN data THEN data.rpc_url ELSE NoStr)

\* account_data.update(kwargs)
dict_update(data, kwargs) ==
  [k \in DOMAIN data \cup DOMAIN kwargs |->
     IF k \in DOMAIN kwargs THEN kwargs[k] ELSE data[k]]

wallet_name == "default"
wallet_storage_path == "wallet_default.json"

\* The state a Wallet method works on: obj the Wallet (its _accounts, a dict
\* from network name to the list of Accounts), fs the wallet files, address
\* what key_manager.address is, networks the _networks of the Config.  A
\* method returns [res, obj, fs].
NoWallet == [some |-> FALSE, _accounts |-> <<>>]

Wallet_save(s, path) ==
  [res |-> Ok(<<>>),
   obj |-> s.obj,
   fs |-> [s.fs EXCEPT ![str_or(path, wallet_storage_path)] =
             Some([wallet_name |-> wallet_name,
                   key_manager_address |-> s.address,
                   accounts |->
                     [i \in 1..Len(s.obj._accounts) |->
                        [key |-> s.obj._accounts[i].key,
                         val |-> [j \in 1..Len(s.obj._accounts[i].val) |->
                                    Account_to_dict(s.obj._accounts[i].val[j])]]]])]]

\* The number of records of a list that from_dict accepts before the first
\* one it rejects.
LoadableAccounts(list) ==
  IF \A i \in 1..Len(list) : Account_from_dict(list[i]).kind = "ok"
  THEN Len(list)
  ELSE (CHOOSE i \in 1..Len(list) :
          /\ Account_from_dict(list[i]).kind # "ok"
          /\ \A j \in 1..(i - 1) : Account_from_dict(list[j]).kind = "ok") - 1

\* Lines 559-563: network by network, record by record, into _accounts.
RECURSIVE load_accounts(_, _)
load_accounts(entries, accounts) ==
  IF entries = <<>> THEN [res |-> Ok(<<>>), _accounts |-> accounts]
  ELSE LET e == Head(entries)
           n == LoadableAccounts(e.val)
           loaded == DictSet(accounts, e.key,
                             [i \in 1..n |-> Account_from_dict(e.val[i]).val])
       IN IF n < Len(e.val)
          THEN [res |-> Account_from_dict(e.val[n + 1]), _accounts |-> loaded]
          ELSE load_accounts(Tail(entries), loaded)

\* load that puts every record at the front of the list of its network.
Wallet_load_newest_first(s, path) ==
  LET load_path == str_or(path, wallet_storage_path) IN
  IF ~s.fs[load_path].some
  THEN [res |-> Raise("FileNotFoundError", "Wallet file not found"),
        obj |-> s.obj, fs |-> s.fs]
  ELSE IF s.fs[load_path].val.key_manager_address # s.address
  THEN [res |-> Raise("ValueError", "Wallet KeyManager mismatch."),
        obj |-> s.obj, fs |-> s.fs]
  ELSE LET l == load_accounts(s.fs[load_path].val.accounts, <<>>) IN
       [res |-> l.res,
        obj |-> [s.obj EXCEPT !._accounts =
                   [n \in 1..Len(l._accounts) |->
                      [key |-> l._accounts[n].key,
                       val |-> [i \in 1..Len(l._accounts[n].val) |->
                                  l._accounts[n].val[Len(l._accounts[n].val) + 1 - i]]]]],
        fs |-> s.fs]

Wallet_load(s, path) ==
  LET load_path == str_or(path, wallet_storage_path) IN
  IF ~s.fs[load_path].some
  THEN [res |-> Raise("FileNotFoundError", "Wallet file not found"),
        obj |-> s.obj, fs |-> s.fs]
  ELSE IF s.fs[load_path].val.key_manager_address # s.address
  THEN [res |-> Raise("ValueError", "Wallet KeyManager mismatch."),
        obj |-> s.obj, fs |-> s.fs]
  ELSE LET l == load_accounts(s.fs[load_path].val.accounts, <<>>) IN
       [res |-> l.res, obj |-> [s.obj EXCEPT !._accounts = l._accounts], fs |-> s.fs]

\* Wallet(key_manager, auto_load=...): wallet_name and storage_path take
\* their defaults.  When load raises the constructor raises and the caller
\* has no new Wallet.
Wallet_init(s, auto_load) ==
  LET created == [some |-> TRUE, _accounts |-> <<>>] IN
  IF auto_load /\ s.fs[wallet_storage_path].some
  THEN LET l == Wallet_load([s EXCEPT !.obj = created], NoStr) IN
       IF l.res.kind = "ok" THEN l ELSE [res |-> l.res, obj |-> s.obj, fs |-> s.fs]
  ELSE [res |-> Ok(<<>>), obj |-> created, fs |-> s.fs]

\* Index of the first account of the list with the address, 0 if none.
FindAccount(accounts, contract_address) ==
  IF \E i \in 1..Len(accounts) :
       str_lower(accounts[i].contract_address) = str_lower(contract_address)
  THEN CHOOSE i \in 1..Len(accounts) :
         /\ str_lower(accounts[i].contract_address) = str_lower(contract_address)
         /\ \A j \in 1..(i - 1) :
              str_lower(accounts[j].contract_address) # str_lower(contract_address)
  ELSE 0

InList(x, list) == \E i \in 1..Len(list) : list[i] = x

\* add_account from line 121 on, _accounts holding a list for the network.
add_account_listed(s, accounts, network_name, contract_address, owners, threshold, guardians, guardian_threshold, bundler_url, paymaster_url, rpc_url, save) ==
  LET listed == [s EXCEPT !.obj._accounts = accounts]
      account == Account_new(network_name, contract_address, owners, threshold,
                             guardians, guardian_threshold, bundler_url,
                             paymaster_url, rpc_url)
  IN
  IF FindAccount(DictGet(accounts, network_name), contract_address) # 0
  THEN [res |-> Raise("ValueError", "Account already exists. Cannot add duplicate account."),
        obj |-> listed.obj, fs |-> s.fs]
  ELSE IF account.kind # "ok"
  THEN [res |-> account, obj |-> listed.obj, fs |-> s.fs]
  ELSE IF s.address.some /\ ~InList(s.address.val, owners)
  THEN [res |-> Raise("ValueError", "KeyManager address is not in account owners."),
        obj |-> listed.obj, fs |-> s.fs]
  ELSE LET added == [listed EXCEPT !.obj._accounts =
                       DictSet(accounts, network_name,
                               Append(DictGet(accounts, network_name), account.val))]
       IN IF save
          THEN [Wallet_save(added, NoStr) EXCEPT !.res = account]
          ELSE [res |-> account, obj |-> added.obj, fs |-> s.fs]

add_account(s, network_name, contract_address, owners, threshold, guardians, guardian_threshold, bundler_url, paymaster_url, rpc_url, save) ==
  IF ~(rpc_url.some /\ rpc_url.val # "") /\ ~DictHas(s.networks, network_name)
  THEN [res |-> Raise("ValueError", "Network not configured."),
        obj |-> s.obj, fs |-> s.fs]
  ELSE add_account_listed(
         s,
         IF DictHas(s.obj._accounts, network_name) THEN s.obj._accounts
         ELSE DictSet(s.obj._accounts, network_name, <<>>),
         network_name, contract_address, owners, threshold, guardians,
         guardian_threshold, bundler_url, paymaster_url, rpc_url, save)

get_account(s, network_name, contract_address, index) ==
  IF ~DictHas(s.obj._accounts, network_name)
     \/ Len(DictGet(s.obj._accounts, network_name)) = 0
  THEN Raise("KeyError", "No accounts for network")
  ELSE LET accounts == DictGet(s.obj._accounts, network_name) IN
       IF contract_address.some /\ contract_address.val # <<>>
       THEN IF FindAccount(accounts, contract_address.val) # 0
            THEN Ok(accounts[FindAccount(accounts, contract_address.val)])
            ELSE Raise("KeyError", "Account not found")
       ELSE IF index >= Len(accounts)
            THEN Raise("IndexError", "Account index out of range.")
            ELSE Ok(accounts[index + 1])

list_networks(s) ==
  DictKeys(SelectSeq(s.obj._accounts, LAMBDA e : Len(e.val) > 0))

remove_account(s, network_name, contract_address, save) ==
  IF ~DictHas(s.obj._accounts, network_name)
  THEN [res |-> Ok(<<>>), obj |-> s.obj, fs |-> s.fs]
  ELSE LET kept == IF contract_address.some /\ contract_address.val # <<>>
                   THEN SelectSeq(DictGet(s.obj._accounts, network_name),
                                  LAMBDA a : str_lower(a.contract_address)
                                               # str_lower(contract_address.val))
                   ELSE <<>>
           removed == [s EXCEPT !.obj._accounts =
                         IF kept = <<>> THEN DictDel(@, network_name)
                         ELSE DictSet(@, network_name, kept)]
       IN IF save THEN Wallet_save(removed, NoStr)
          ELSE [res |-> Ok(<<>>), obj |-> removed.obj, fs |-> s.fs]

update_account(s, network_name, contract_address, save, kwargs) ==
  IF ~DictHas(s.obj._accounts, network_name)
  THEN [res |-> Raise("KeyError", "No accounts for network"),
        obj |-> s.obj, fs |-> s.fs]
  ELSE LET accounts == DictGet(s.obj._accounts, network_name)
           account_index == FindAccount(accounts, contract_address)
       IN
       IF account_index = 0
       THEN [res |-> Raise("KeyError", "Account not found"),
             obj |-> s.obj, fs |-> s.fs]
       ELSE LET new_account ==
                  Account_from_dict(
                    dict_update(Account_to_dict(accounts[account_index]), kwargs))
            IN
            IF new_account.kind # "ok"
            THEN [res |-> new_account, obj |-> s.obj, fs |-> s.fs]
            ELSE LET updated ==
                       [s EXCEPT !.obj._accounts =
                          DictSet(@, network_name,
                                  [accounts EXCEPT ![account_index] = new_account.val])]
                 IN IF save
                    THEN [Wallet_save(updated, NoStr) EXCEPT !.res = new_account]
                    ELSE [res |-> new_account, obj |-> updated.obj, fs |-> s.fs]

\* Inputs of the Wallet calls.
MaxAccounts == 2
WalletNetworks == {"test_network"}
\* The contract addresses 0xaaaa..aa and 0xbbbb..bb, written in lower case
\* and with their checksum.
LowerAddress(i) == bytes_hex([j \in 1..20 |-> 153 + 17 * i])
ContractAddresses ==
  {LowerAddress(1), to_checksum_address(LowerAddress(1)),
   to_checksum_address(LowerAddress(2))}
\* The addresses of the two keys the KeyManager of SpecWallet may hold.
SignerAddress(i) == to_checksum_address(bytes_hex(AddressOf(Key32(i))))
WalletOwnerLists ==
  {<<SignerAddress(1)>>, <<SignerAddress(2)>>, <<str_lower(SignerAddress(1))>>}
WalletThresholds == {0, 1}
RpcUrls == {NoStr, SomeStr("http://localhost:8545")}
WalletPaths == {wallet_storage_path, "wallet_backup.json"}
\* What update_account is given besides network and address.
UpdateKwargs ==
  {"owners" :> <<SignerAddress(2)>>,
   "threshold" :> 0}
  \cup {"contract_address" :> to_checksum_address(LowerAddress(i)) : i \in 1..2}

\* A wallet file that was not written by save(): two networks, and the last
\* record has a threshold of 0.
ForeignAccount(network_name, i) ==
  Account_to_dict(Account_new(network_name, LowerAddress(i), <<SignerAddress(2)>>, 1,
                              None, 0, NoStr, NoStr, NoStr).val)

ForeignWalletData ==
  [wallet_name |-> wallet_name,
   key_manager_address |-> None,
   accounts |->
     << [key |-> "sepolia",
         val |-> << ForeignAccount("sepolia", 2) >>],
        [key |-> "test_network",
         val |-> << ForeignAccount("test_network", 1),
                    [ForeignAccount("test_network", 2) EXCEPT !.threshold = 0] >>] >>]

WalletIdle ==
  [obj |-> NoWallet,
   fs |-> [p \in WalletPaths |->
             IF p = wallet_storage_path THEN None ELSE Some(ForeignWalletData)],
   last |-> [op |-> "init", network_name |-> "", contract_address |-> <<>>,
             kwargs |-> <<>>, rpc_url |-> NoStr, path |-> NoStr, out |-> Ok(<<>>)]]

(***************************************************************************)
(* Spec: calls on one KeyManager, one after the other.                     *)
(***************************************************************************)
SignOps == {"sign_message", "sign_transaction", "sign_userop"}

S == [fs |-> fs, km |-> km]

Called(op, outcome) ==
  \E o \in {outcome} :
    /\ fs' = o.fs
    /\ km' = o.km
    /\ last' = [op |-> op, kind |-> o.res.kind, ret |-> o.res.val]
    /\ UNCHANGED <<cipher, tampered, io, race, acct, config, wallet>>

CipherIdle == [stage |-> "idle", m |-> <<>>, p |-> <<>>, blob |-> <<>>,
               orig |-> <<>>, pos |-> 0, p2 |-> <<>>, out |-> Ok(<<>>)]

IoIdle == [pc |-> "idle", op |-> "", path |-> "", prev |-> None, new |-> None,
           km |-> KeyManager_init, res |-> Ok(<<>>)]

RaceIdle == [signer |-> [pc |-> "idle", op |-> "", checked |-> None, res |-> Ok(<<>>)],
             locker |-> [pc |-> "idle", op |-> "", key |-> <<>>]]

AcctIdle == [self |-> None, op |-> "init", args |-> <<>>, out |-> Ok(<<>>),
             calls |-> {}]

KmInit ==
  /\ fs = [p \in Paths |-> None]
  /\ km = KeyManager_init
  /\ last = [op |-> "init", kind |-> "ok", ret |-> <<>>]
  /\ tampered = FALSE
  /\ io = IoIdle
  /\ race = RaceIdle
  /\ acct = AcctIdle
  /\ config = ConfigIdle
  /\ wallet = WalletIdle

Init == KmInit /\ cipher = CipherIdle

CreateNewKey ==
  \E password \in KmPasswords, k \in NewKeys, r \in KmRandoms :
    Called("create_new_key", create_new_key(S, password, k, r.salt, r.iv))

ImportPrivateKey ==
  \E h \in HexInputs, password \in KmPasswords, r \in KmRandoms :
    Called("import_private_key", import_private_key(S, h, password, r.salt, r.iv))

Unlock ==
  \E password \in KmPasswords : Called("unlock", unlock(S, password))

Lock == Called("lock", lock(S))

ExportKeystore ==
  \E dest \in Paths : Called("export_keystore", export_keystore(S, dest))

ImportKeystore ==
  \E src \in Paths, password \in KmPasswords :
    Called("import_keystore", import_keystore(S, src, password))

SignMessage ==
  \E m \in Messages : Called("sign_message", sign_message(S, m))

SignTransaction ==
  \E tx \in TxInputs : Called("sign_transaction", sign_transaction(S, tx))

SignUserop ==
  \E h \in HashInputs : Called("sign_userop", sign_userop(S, h))

\* The environment changes one byte of the file at other_path (a backup that
\* is handed to import_keystore), once.
Tamper ==
  /\ ~tampered
  /\ fs[other_path].some
  /\ fs[other_path].val # <<>>
  /\ \E pos \in TamperPositions(fs[other_path].val) :
       \E v \in KmTamperValues(fs[other_path].val[pos]) :
         fs' = [fs EXCEPT ![other_path] = Some([fs[other_path].val EXCEPT ![pos] = v])]
  /\ tampered' = TRUE
  /\ last' = [op |-> "tamper", kind |-> "ok", ret |-> <<>>]
  /\ UNCHANGED <<cipher, km, io, race, acct, config, wallet>>

Next ==
  \/ CreateNewKey
  \/ ImportPrivateKey
  \/ Unlock
  \/ Lock
  \/ ExportKeystore
  \/ ImportKeystore
  \/ SignMessage
  \/ SignTransaction
  \/ SignUserop

Spec == Init /\ [][Next]_vars

(***************************************************************************)
(* SpecEnv: the calls that read or write the keystore files, and an        *)
(* environment that may damage the file at other_path before it is         *)
(* imported.                                                               *)
(***************************************************************************)
NextEnv ==
  \/ CreateNewKey
  \/ ImportPrivateKey
  \/ Unlock
  \/ Lock
  \/ ExportKeystore
  \/ ImportKeystore
  \/ Tamper

SpecEnv == Init /\ [][NextEnv]_vars

(***************************************************************************)
(* SpecCrash: the calls that write a file, at the grain of the file        *)
(* system.  open(path, "wb") creates or truncates the file; the data are   *)
(* in the file once write and close have run.  The process may die in      *)
(* between; the next process starts with a new KeyManager.                 *)
(***************************************************************************)
OpenForWrite(op, outcome) ==
  /\ io.pc # "writing"
  /\ \E o \in {outcome} :
       /\ o.wrote # {}
       /\ \E path \in o.wrote :
            /\ io' = [pc |-> "writing", op |-> op, path |-> path,
                      prev |-> fs[path], new |-> o.fs[path],
                      km |-> o.km, res |-> o.res]
            /\ fs' = [fs EXCEPT ![path] = Some(<<>>)]
  /\ UNCHANGED <<cipher, km, last, tampered, race, acct, config, wallet>>

OpenCreateNewKey ==
  \E password \in KmPasswords, k \in NewKeys, r \in KmRandoms :
    OpenForWrite("create_new_key", create_new_key(S, password, k, r.salt, r.iv))

OpenImportPrivateKey ==
  \E h \in HexInputs, password \in KmPasswords, r \in KmRandoms :
    OpenForWrite("import_private_key",
                 import_private_key(S, h, password, r.salt, r.iv))

OpenExportKeystore ==
  \E dest \in Paths : OpenForWrite("export_keystore", export_keystore(S, dest))

OpenImportKeystore ==
  \E src \in Paths, password \in KmPasswords :
    OpenForWrite("import_keystore", import_keystore(S, src, password))

\* f.write(data), the close of the file and the rest of the call.
WriteAndReturn ==
  /\ io.pc = "writing"
  /\ fs' = [fs EXCEPT ![io.path] = io.new]
  /\ km' = io.km
  /\ last' = [op |-> io.op, kind |-> io.res.kind, ret |-> io.res.val]
  /\ io' = IoIdle
  /\ UNCHANGED <<cipher, tampered, race, acct, config, wallet>>

\* The process dies after open and before the data reach the file.
Crash ==
  /\ io.pc = "writing"
  /\ io' = [io EXCEPT !.pc = "crashed"]
  /\ km' = KeyManager_init
  /\ last' = [op |-> "crash", kind |-> "ok", ret |-> <<>>]
  /\ UNCHANGED <<cipher, fs, tampered, race, acct, config, wallet>>

NextCrash ==
  \/ OpenCreateNewKey
  \/ OpenImportPrivateKey
  \/ OpenExportKeystore
  \/ OpenImportKeystore
  \/ WriteAndReturn
  \/ Crash

SpecCrash == Init /\ [][NextCrash]_vars

(***************************************************************************)
(* SpecRace: two threads share the KeyManager.  One calls a sign method,   *)
(* the other lock() or unlock(); a thread may be preempted between two     *)
(* statements.  No statement of keyManager.py takes a lock.                *)
(***************************************************************************)
SignInput(op) ==
  IF op = "sign_message" THEN CHOOSE m \in Messages : TRUE
  ELSE IF op = "sign_transaction"
  THEN CHOOSE tx \in TxInputs : RequiredTxFields \subseteq tx.fields
  ELSE Zeros(32)

SignCall(s, op) ==
  IF op = "sign_message" THEN sign_message(s, SignInput(op))
  ELSE IF op = "sign_transaction" THEN sign_transaction(s, SignInput(op))
  ELSE sign_userop(s, SignInput(op))

\* "if not self.unlocked: raise PermissionError(...)"
SignCheck ==
  /\ race.signer.pc \in {"idle", "done"}
  /\ \E op \in SignOps :
       race' = [race EXCEPT !.signer =
                  IF ~km.unlocked
                  THEN [pc |-> "done", op |-> op, checked |-> None,
                        res |-> SignCall(S, op).res]
                  ELSE [pc |-> "checked", op |-> op, checked |-> km._private_key,
                        res |-> Ok(<<>>)]]
  /\ UNCHANGED <<cipher, fs, km, last, tampered, io, acct, config, wallet>>

\* "acct = Account.from_key(self._private_key)" and the signing: the rest of
\* the method, which reads the key that is resident now.
SignRead ==
  /\ race.signer.pc = "checked"
  /\ race' = [race EXCEPT !.signer.pc = "done",
                           !.signer.res =
                             SignCall([fs |-> fs, km |-> [km EXCEPT !.unlocked = TRUE]],
                                      race.signer.op).res]
  /\ UNCHANGED <<cipher, fs, km, last, tampered, io, acct, config, wallet>>

\* lock(): "self._private_key = None"
LockClearKey ==
  /\ race.locker.pc = "idle"
  /\ km' = [km EXCEPT !._private_key = None]
  /\ race' = [race EXCEPT !.locker = [pc |-> "lock_flag", op |-> "lock", key |-> <<>>]]
  /\ UNCHANGED <<cipher, fs, last, tampered, io, acct, config, wallet>>

\* lock(): "self.unlocked = False"
LockClearFlag ==
  /\ race.locker.pc = "lock_flag"
  /\ km' = [km EXCEPT !.unlocked = FALSE]
  /\ race' = [race EXCEPT !.locker = RaceIdle.locker]
  /\ UNCHANGED <<cipher, fs, last, tampered, io, acct, config, wallet>>

\* unlock(): the file is read and decrypted into a local; a call that raises
\* here has changed nothing.
UnlockDecrypt ==
  /\ race.locker.pc = "idle"
  /\ fs[storage_path].some
  /\ \E password \in KmPasswords :
       \E d \in {aes_decrypt_km(fs[storage_path].val, password)} :
         /\ d.kind = "ok"
         /\ race' = [race EXCEPT !.locker =
                       [pc |-> "unlock_key", op |-> "unlock", key |-> d.val]]
  /\ UNCHANGED <<cipher, fs, km, last, tampered, io, acct, config, wallet>>

\* unlock(): "self._private_key = private_key_bytes"
UnlockStoreKey ==
  /\ race.locker.pc = "unlock_key"
  /\ km' = [km EXCEPT !._private_key = Some(race.locker.key)]
  /\ race' = [race EXCEPT !.locker.pc = "unlock_address"]
  /\ UNCHANGED <<cipher, fs, last, tampered, io, acct, config, wallet>>

\* unlock(): "self.address = Account.from_key(private_key_bytes).address"
UnlockSetAddress ==
  /\ race.locker.pc = "unlock_address"
  /\ IF IsValidKey(Some(race.locker.key))
     THEN /\ km' = [km EXCEPT !.address = Some(AddressOf(race.locker.key))]
          /\ race' = [race EXCEPT !.locker.pc = "unlock_flag"]
     ELSE /\ km' = km
          /\ race' = [race EXCEPT !.locker = RaceIdle.locker]
  /\ UNCHANGED <<cipher, fs, last, tampered, io, acct, config, wallet>>

\* unlock(): "self.unlocked = True"
UnlockSetFlag ==
  /\ race.locker.pc = "unlock_flag"
  /\ km' = [km EXCEPT !.unlocked = TRUE]
  /\ race' = [race EXCEPT !.locker = RaceIdle.locker]
  /\ UNCHANGED <<cipher, fs, last, tampered, io, acct, config, wallet>>

\* A key is created before the threads start.
RaceCreateNewKey ==
  /\ ~fs[storage_path].some
  /\ CreateNewKey

NextRace ==
  \/ RaceCreateNewKey
  \/ SignCheck
  \/ SignRead
  \/ LockClearKey
  \/ LockClearFlag
  \/ UnlockDecrypt
  \/ UnlockStoreKey
  \/ UnlockSetAddress
  \/ UnlockSetFlag

SpecRace == Init /\ [][NextRace]_vars

(***************************************************************************)
(* SpecCipher: aes_encrypt / aes_decrypt as pure functions of their        *)
(* inputs; the blob may be changed in one position before it is decrypted, *)
(* directly or by unlock() of a KeyManager whose keystore file it is.      *)
(***************************************************************************)
CipherInit ==
  /\ KmInit
  /\ \E m \in Plaintexts, p \in Passwords :
       cipher = [CipherIdle EXCEPT !.stage = "input", !.m = m, !.p = p]

CipherEncrypt ==
  /\ cipher.stage = "input"
  /\ \E salt \in Randoms, iv \in Randoms :
       LET r == aes_encrypt(cipher.m, cipher.p, salt, iv) IN
       IF r.kind = "ok"
       THEN cipher' = [cipher EXCEPT !.stage = "encrypted", !.blob = r.val,
                                     !.orig = r.val]
       ELSE cipher' = [cipher EXCEPT !.stage = "encrypt_failed", !.out = r]
  /\ UNCHANGED kmvars

CipherTamper ==
  /\ cipher.stage = "encrypted"
  /\ \E pos \in 1..Len(cipher.blob) :
       \E v \in TamperValues(cipher.blob[pos]) :
         cipher' = [cipher EXCEPT !.stage = "tampered", !.pos = pos,
                                  !.blob = [cipher.blob EXCEPT ![pos] = v]]
  /\ UNCHANGED kmvars

\* A blob that was changed is decrypted with the password it was made with.
\* A str that str.encode() rejects (a lone surrogate) is a password a caller
\* can hand to decrypt although no blob was ever encrypted with it.
DecryptPasswords ==
  IF cipher.stage = "tampered" THEN {cipher.p} ELSE Passwords \cup {PasswordPool[4]}

CipherDecrypt ==
  /\ cipher.stage \in {"encrypted", "tampered"}
  /\ \E p2 \in DecryptPasswords :
       cipher' = [cipher EXCEPT !.stage = "decrypted", !.p2 = p2,
                                !.out = aes_decrypt(cipher.blob, p2)]
  /\ UNCHANGED kmvars

\* unlock(p2) on a new KeyManager whose keystore file holds the blob.
CipherUnlock ==
  /\ cipher.stage \in {"encrypted", "tampered"}
  /\ \E p2 \in DecryptPasswords :
       LET s == [fs |-> [fs EXCEPT ![storage_path] = Some(cipher.blob)],
                 km |-> KeyManager_init]
       IN  cipher' = [cipher EXCEPT !.stage = "unlocked", !.p2 = p2,
                                    !.out = unlock(s, p2).res]
  /\ UNCHANGED kmvars

\* One more byte at the end of the blob: a character of the alphabet, '='
\* or a byte outside the alphabet.
CipherAppend ==
  /\ cipher.stage = "encrypted"
  /\ \E v \in {0, PAD, JUNK} :
       cipher' = [cipher EXCEPT !.stage = "tampered",
                                !.pos = Len(cipher.blob) + 1,
                                !.blob = cipher.blob \o <<v>>]
  /\ UNCHANGED kmvars

CipherNext ==
  \/ CipherEncrypt
  \/ CipherTamper
  \/ CipherAppend
  \/ CipherDecrypt
  \/ CipherUnlock

SpecCipher == CipherInit /\ [][CipherNext]_vars

(***************************************************************************)
(* SpecAccount: calls on one Account object.  A call records its inputs    *)
(* and its outcome; the caller takes the outcome before the next call, or  *)
(* hands the record that build_user_operation returned to                  *)
(* get_user_op_hash.                                                       *)
(***************************************************************************)
AcctCalled(self, op, args, out, calls) ==
  /\ acct' = [self |-> self, op |-> op, args |-> args, out |-> out,
              calls |-> calls]
  /\ UNCHANGED <<cipher, fs, km, last, tampered, io, race, config, wallet>>

AcctReady == acct.op \in {"init", "idle"}

NewAccount ==
  /\ AcctReady
  /\ \E owners \in OwnerLists, threshold \in Thresholds,
        guardians \in GuardianLists, guardian_threshold \in GuardianThresholds :
     \E r \in {Account_init(AccountAddress, owners, threshold, guardians,
                            guardian_threshold)} :
       AcctCalled(IF r.kind = "ok" THEN Some(r.val) ELSE acct.self,
                  "Account",
                  [owners |-> owners, threshold |-> threshold,
                   guardians |-> guardians,
                   guardian_threshold |-> guardian_threshold],
                  IF r.kind = "ok" THEN Ok(<<>>) ELSE r, {})

BuildUserOperation ==
  /\ AcctReady /\ acct.self.some
  /\ \E call_data \in CallDatas, nonce \in NonceValues,
        max_fee_per_gas \in OptionalInts,
        max_priority_fee_per_gas \in OptionalInts,
        call_gas_limit \in IntValues, verification_gas_limit \in IntValues,
        rpc \in RpcAnswers :
       \E b \in {build_user_operation(
                   acct.self.val, call_data, nonce, max_fee_per_gas,
                   max_priority_fee_per_gas, call_gas_limit,
                   verification_gas_limit, PreVerificationGas, <<>>, <<>>, rpc)} :
         AcctCalled(acct.self, "build_user_operation",
                    [call_data |-> call_data, nonce |-> nonce,
                     max_fee_per_gas |-> max_fee_per_gas,
                     max_priority_fee_per_gas |-> max_priority_fee_per_gas,
                     call_gas_limit |-> call_gas_limit,
                     verification_gas_limit |-> verification_gas_limit,
                     rpc |-> rpc],
                    b.res, b.calls)

\* The records hashed: the one just built, or one the caller has put
\* together.
HashableOps ==
  IF acct.op = "build_user_operation" /\ acct.out.kind = "ok"
  THEN {acct.out.val}
  ELSE IF AcctReady THEN UserOps ELSE {}

GetUserOpHash ==
  /\ acct.self.some
  /\ \E user_op \in HashableOps, rpc \in RpcAnswers :
       AcctCalled(acct.self, "get_user_op_hash",
                  [user_op |-> user_op, rpc |-> rpc],
                  get_user_op_hash(acct.self.val, user_op, rpc), {})

AccountReturn ==
  /\ ~AcctReady
  /\ acct' = [AcctIdle EXCEPT !.self = acct.self, !.op = "idle"]
  /\ UNCHANGED <<cipher, fs, km, last, tampered, io, race, config, wallet>>

NextAccount ==
  \/ NewAccount
  \/ BuildUserOperation
  \/ GetUserOpHash
  \/ AccountReturn

SpecAccount == Init /\ [][NextAccount]_vars

(***************************************************************************)
(* SpecConfig: Config(...) and calls on the instance it returns, in one    *)
(* process after the other; the files outlive the process.                 *)
(***************************************************************************)
ConfigS == [obj |-> config.obj, fs |-> config.fs]

ConfigCalled(op, name, cfg, save, path, requested, outcome) ==
  /\ \E o \in {outcome} :
       config' = [obj |-> o.obj, fs |-> o.fs, requested |-> requested,
                  last |-> [op |-> op, name |-> name, cfg |-> cfg, save |-> save,
                            path |-> path, out |-> o.res]]
  /\ UNCHANGED <<cipher, fs, km, last, tampered, io, race, acct, wallet>>

NewConfig ==
  \E config_path \in ConfigPathArgs :
    ConfigCalled("Config", "", <<>>, FALSE, config_path,
                 str_or(config_path, DEFAULT_CONFIG_PATH),
                 Config_init(ConfigS, config_path))

AddNetwork ==
  /\ config.obj.some
  /\ \E network_name \in NetworkNames, network_config \in NetworkConfigs,
        save \in BOOLEAN :
       ConfigCalled("add_network", network_name, network_config, save, NoStr,
                    config.requested,
                    add_network(ConfigS, network_name, network_config, save))

GetNetwork ==
  /\ config.obj.some
  /\ \E network_name \in NetworkNames :
       ConfigCalled("get_network", network_name, <<>>, FALSE, NoStr,
                    config.requested, get_network(ConfigS, network_name))

RemoveNetwork ==
  /\ config.obj.some
  /\ \E network_name \in NetworkNames, save \in BOOLEAN :
       ConfigCalled("remove_network", network_name, <<>>, save, NoStr,
                    config.requested, remove_network(ConfigS, network_name, save))

SaveToJson ==
  /\ config.obj.some
  /\ \E path \in ConfigPathArgs :
       ConfigCalled("save_to_json", "", <<>>, FALSE, path, config.requested,
                    save_to_json(ConfigS, path))

LoadFromJson ==
  /\ config.obj.some
  /\ \E path \in ConfigPathArgs :
       ConfigCalled("load_from_json", "", <<>>, FALSE, path, config.requested,
                    load_from_json(ConfigS, path))

\* The process ends: the class attribute _instance is gone, the files stay.
ConfigExit ==
  /\ config.obj.some
  /\ config' = [ConfigIdle EXCEPT !.fs = config.fs]
  /\ UNCHANGED <<cipher, fs, km, last, tampered, io, race, acct, wallet>>

NextConfig ==
  \/ NewConfig
  \/ AddNetwork
  \/ GetNetwork
  \/ RemoveNetwork
  \/ SaveToJson
  \/ LoadFromJson
  \/ ConfigExit

SpecConfig == Init /\ [][NextConfig]_vars

(***************************************************************************)
(* SpecWallet: calls on one Wallet, on the Config it shares and on the     *)
(* KeyManager it was given.                                                *)
(***************************************************************************)
WalletS ==
  [obj |-> wallet.obj, fs |-> wallet.fs, address |-> key_manager_address(km),
   networks |-> config.obj._networks]

WalletCalled(op, network_name, contract_address, kwargs, rpc_url, path, outcome) ==
  \E o \in {outcome} :
    wallet' = [obj |-> o.obj, fs |-> o.fs,
               last |-> [op |-> op, network_name |-> network_name,
                         contract_address |-> contract_address, kwargs |-> kwargs,
                         rpc_url |-> rpc_url, path |-> path, out |-> o.res]]

WalletReady == wallet.last.op \in {"init", "idle"}

\* Wallet(key_manager), auto_load being True by default: line 66 is Config().
NewWallet ==
  /\ WalletReady
  /\ \E c \in {Config_init(ConfigS, NoStr)} :
       config' = [config EXCEPT !.obj = c.obj, !.fs = c.fs]
  /\ WalletCalled("Wallet", "", <<>>, <<>>, NoStr, NoStr, Wallet_init(WalletS, TRUE))
  /\ UNCHANGED <<cipher, fs, km, last, tampered, io, race, acct>>

AddAccount ==
  /\ WalletReady /\ wallet.obj.some
  /\ \E network_name \in WalletNetworks, contract_address \in ContractAddresses,
        owners \in WalletOwnerLists, threshold \in WalletThresholds,
        rpc_url \in RpcUrls :
       /\ IF DictHas(wallet.obj._accounts, network_name)
          THEN Len(DictGet(wallet.obj._accounts, network_name)) < MaxAccounts
          ELSE TRUE
       /\ WalletCalled("add_account", network_name, contract_address, <<>>, rpc_url,
                       NoStr,
                       add_account(WalletS, network_name, contract_address, owners,
                                   threshold, None, 0, NoStr, NoStr, rpc_url, TRUE))
  /\ UNCHANGED <<cipher, fs, km, last, tampered, io, race, acct, config>>

RemoveAccount ==
  /\ WalletReady /\ wallet.obj.some
  /\ \E network_name \in WalletNetworks,
        contract_address \in {None} \cup {Some(a) : a \in ContractAddresses} :
       WalletCalled("remove_account", network_name, contract_address.val, <<>>,
                    NoStr, NoStr,
                    remove_account(WalletS, network_name, contract_address, TRUE))
  /\ UNCHANGED <<cipher, fs, km, last, tampered, io, race, acct, config>>

UpdateAccount ==
  /\ WalletReady /\ wallet.obj.some
  /\ \E network_name \in WalletNetworks, contract_address \in ContractAddresses,
        kwargs \in UpdateKwargs :
       WalletCalled("update_account", network_name, contract_address, kwargs, NoStr,
                    NoStr,
                    update_account(WalletS, network_name, contract_address, TRUE,
                                   kwargs))
  /\ UNCHANGED <<cipher, fs, km, last, tampered, io, race, acct, config>>

WalletSave ==
  /\ WalletReady /\ wallet.obj.some
  /\ WalletCalled("save", "", <<>>, <<>>, NoStr, NoStr, Wallet_save(WalletS, NoStr))
  /\ UNCHANGED <<cipher, fs, km, last, tampered, io, race, acct, config>>

WalletLoad ==
  /\ WalletReady /\ wallet.obj.some
  /\ \E path \in {NoStr} \cup {SomeStr(p) : p \in WalletPaths \ {wallet_storage_path}} :
       WalletCalled("load", "", <<>>, <<>>, NoStr, path, Wallet_load(WalletS, path))
  /\ UNCHANGED <<cipher, fs, km, last, tampered, io, race, acct, config>>

WalletReturn ==
  /\ ~WalletReady
  /\ wallet' = [wallet EXCEPT !.last = [WalletIdle.last EXCEPT !.op = "idle"]]
  /\ UNCHANGED <<cipher, fs, km, last, tampered, io, race, acct, config>>

\* config.add_network("test_network", ..., save=False) by the program that
\* holds the Wallet.
WalletAddNetwork ==
  /\ WalletReady /\ config.obj.some
  /\ ~has_network(ConfigS, NetworkNamePool[1])
  /\ \E c \in {add_network(ConfigS, NetworkNamePool[1], NetworkConfigPool[1], FALSE)} :
       config' = [config EXCEPT !.obj = c.obj, !.fs = c.fs]
  /\ UNCHANGED <<cipher, fs, km, last, tampered, io, race, acct, wallet>>

\* The KeyManager of the Wallet gets a key: create_new_key, or
\* import_private_key of another key.
WalletKeyManager ==
  /\ WalletReady
  /\ \/ Called("create_new_key",
               create_new_key(S, PasswordPool[1], Key32(1), Rand16(1), Rand16(2)))
     \/ Called("import_private_key",
               import_private_key(S, HexPool[1], PasswordPool[1], Rand16(1),
                                  Rand16(2)))

NextWallet ==
  \/ NewWallet
  \/ AddAccount
  \/ RemoveAccount
  \/ UpdateAccount
  \/ WalletSave
  \/ WalletLoad
  \/ WalletReturn
  \/ WalletAddNetwork
  \/ WalletKeyManager

SpecWallet == Init /\ [][NextWallet]_vars



(***************************************************************************)
(* The properties.                                                         *)
(***************************************************************************)
Locked == ~km.unlocked

\* Every sign method, on every input, raises PermissionError in s.
AllSignsRefused(s) ==
  /\ \A m \in Messages : sign_message(s, m).res.kind = "PermissionError"
  /\ \A tx \in TxInputs : sign_transaction(s, tx).res.kind = "PermissionError"
  /\ \A h \in HashInputs : sign_userop(s, h).res.kind = "PermissionError"

\* Every sign method signs every well-formed input in s.
AllSignsSucceed(s) ==
  /\ \A m \in Messages : sign_message(s, m).res.kind = "ok"
  /\ \A tx \in TxInputs :
        RequiredTxFields \subseteq tx.fields => sign_transaction(s, tx).res.kind = "ok"
  /\ \A h \in HashInputs : Len(h) = 32 => sign_userop(s, h).res.kind = "ok"

\* C1 - Lock gating: a sign call raises PermissionError exactly when the
\* signer is not unlocked, which it is when new and after lock(); right after
\* a successful unlock every sign method signs, and after the lock() that
\* follows every sign method raises PermissionError again.
C1_LockGating ==
  /\ last.op \in SignOps => (last.kind = "PermissionError" <=> Locked)
  /\ Locked => AllSignsRefused(S)
  /\ last.op \in {"init", "lock"} => Locked
  /\ last.op = "unlock" /\ last.kind = "ok" =>
        /\ AllSignsSucceed(S)
        /\ AllSignsRefused([fs |-> lock(S).fs, km |-> lock(S).km])

C1_Witness ==
  /\ last.op = "unlock"
  /\ last.kind = "ok"
  /\ sign_userop(S, Zeros(32)).res.kind = "ok"

\* C2 - Keystore state machine: a successful create_new_key or
\* import_private_key leaves the signer Locked (unlocked false, no raw key
\* resident), whatever the state before; a sign call succeeds only while
\* unlocked.
C2_CreateLeavesLocked ==
  /\ last.op \in {"create_new_key", "import_private_key"} /\ last.kind = "ok" =>
        ~km.unlocked /\ ~km._private_key.some
  /\ last.op \in SignOps /\ last.kind = "ok" => km.unlocked

Encodable(p) == str_encode(p).kind = "ok"
KeyBlockOf(p) == HmacKeyBlock(str_encode(p).val)
Untampered == cipher.blob = cipher.orig
Decrypted == cipher.stage \in {"decrypted", "unlocked"}

\* C3 (as stated) - Wrong password: decrypting, or unlocking, a blob with any
\* password other than the one it was encrypted with raises
\* HMACVerificationFailed.
C3_WrongPasswordOriginal ==
  Decrypted /\ Untampered /\ cipher.p2 # cipher.p =>
    cipher.out.kind = "HMACVerificationFailed"

\* C3 (amended) - Wrong password: for passwords that can be encoded and
\* whose encodings differ by more than trailing NUL bytes, decrypting, or
\* unlocking, a blob with the other password raises HMACVerificationFailed
\* and yields no plaintext.
C3_WrongPassword ==
  Decrypted /\ Untampered /\ Encodable(cipher.p2)
    /\ KeyBlockOf(cipher.p2) # KeyBlockOf(cipher.p) =>
      cipher.out.kind = "HMACVerificationFailed" /\ cipher.out.val = <<>>

C3_Witness ==
  /\ cipher.stage = "unlocked"
  /\ Untampered
  /\ KeyBlockOf(cipher.p2) # KeyBlockOf(cipher.p)
  /\ cipher.out.kind = "HMACVerificationFailed"

\* C4 - Round trip: decrypting the blob aes_encrypt made, with the same
\* password, returns exactly the plaintext, the empty one included, for
\* every salt and iv.
C4_RoundTrip ==
  cipher.stage = "decrypted" /\ Untampered /\ cipher.p2 = cipher.p =>
    cipher.out = Ok(cipher.m)

C4_Witness ==
  /\ cipher.stage = "decrypted"
  /\ Untampered
  /\ cipher.p2 = cipher.p
  /\ cipher.m = <<>>
  /\ cipher.out = Ok(<<>>)

\* C5 - Tamper detection: after a change of one byte of the stored base64
\* text, at any position and to any value, aes_decrypt and unlock with the
\* original password raise HMACVerificationFailed.
C5_TamperDetection ==
  Decrypted /\ ~Untampered /\ cipher.p2 = cipher.p =>
    cipher.out.kind = "HMACVerificationFailed"

\* C6 - Failed unlock changes nothing: a call of unlock that raises leaves
\* the files, the resident key, the address and the unlocked flag as they
\* were.
C6_FailedUnlockChangesNothing ==
  [][last'.op = "unlock" /\ last'.kind # "ok" => fs' = fs /\ km' = km]_vars

\* C7 - Failed key import changes nothing: a call of import_private_key that
\* raises while a keystore file exists leaves the content of that file and
\* the address as they were.
C7_FailedImportChangesNothing ==
  [][last'.op = "import_private_key" /\ last'.kind # "ok"
       /\ fs[storage_path].some =>
       fs'[storage_path] = fs[storage_path] /\ km'.address = km.address]_vars

\* C8 - import_keystore verifies before it commits: a call that raises
\* leaves the files and the KeyManager as they were; a call that returns has
\* copied a source file that decrypts, under one of the passwords, to a
\* valid key, and has set the address to the address of that key and
\* nothing else.
C8_ImportKeystoreVerifiesFirst ==
  [][last'.op = "import_keystore" =>
       IF last'.kind # "ok" THEN fs' = fs /\ km' = km
       ELSE \E src \in Paths, pw \in KmPasswords :
              /\ fs[src].some
              /\ aes_decrypt_km(fs[src].val, pw).kind = "ok"
              /\ IsValidKey(Some(aes_decrypt_km(fs[src].val, pw).val))
              /\ fs' = [fs EXCEPT ![storage_path] = fs[src]]
              /\ km' = [km EXCEPT !.address =
                          Some(AddressOf(aes_decrypt_km(fs[src].val, pw).val))]]_vars

C8_Witness ==
  /\ last.op = "import_keystore"
  /\ last.kind \in {"HMACVerificationFailed", "CryptoError"}
  /\ tampered
  /\ fs[storage_path].some

\* C9 - Crash atomicity of keystore writes: after a crash during
\* create_new_key, import_private_key, import_keystore or export_keystore
\* the file that was being written holds what it held before the call (or is
\* absent as before) or the complete new blob.
C9_CrashAtomicity ==
  io.pc = "crashed" => fs[io.path] \in {io.prev, io.new}

\* C10 - No lock/sign race: a sign call that runs while another thread calls
\* lock() or unlock() either raises PermissionError or returns the signature
\* made with the key that was resident when it passed its lock check.
C10_NoLockSignRace ==
  race.signer.pc = "done" =>
    \/ race.signer.res.kind = "PermissionError"
    \/ /\ race.signer.checked.some
       /\ race.signer.res =
            SignCall([fs |-> fs,
                      km |-> [km EXCEPT !._private_key = race.signer.checked,
                                        !.unlocked = TRUE]],
                     race.signer.op).res
       /\ race.signer.res.kind = "ok"

\* C11 - lock() always succeeds and is idempotent: from every state it
\* returns, leaves unlocked false and no raw key resident, changes neither
\* the address nor a file, and a second call changes nothing more.
C11_LockIdempotent ==
  LET once == lock(S)
      twice == lock([fs |-> once.fs, km |-> once.km])
  IN  /\ once.res.kind = "ok"
      /\ ~once.km.unlocked /\ ~once.km._private_key.some
      /\ once.km.address = km.address /\ once.fs = fs
      /\ twice.res.kind = "ok" /\ twice.km = once.km /\ twice.fs = once.fs
      /\ last.op = "lock" => last.kind = "ok" /\ km = once.km

C11_Witness ==
  /\ km.unlocked /\ km._private_key.some /\ km.address.some
  /\ ~lock(S).km.unlocked /\ ~lock(S).km._private_key.some

\* C12 - Stable identifier: the address that create_new_key or
\* import_private_key returned is the address every successful unlock of
\* that keystore returns, and get_address() after it, however many lock()
\* calls and failed unlocks came in between.
C12_StableIdentifier ==
  /\ last.op \in {"create_new_key", "import_private_key"} /\ last.kind = "ok" =>
        get_address(S) = Some(last.ret)
  /\ fs[storage_path].some /\ get_address(S).some =>
        \A p \in KmPasswords :
          LET u == unlock(S, p) IN
          u.res.kind = "ok" =>
            /\ u.res.val = get_address(S).val
            /\ get_address([fs |-> u.fs, km |-> u.km]) = get_address(S)
  /\ last.op = "unlock" /\ last.kind = "ok" => get_address(S) = Some(last.ret)

C12_Witness ==
  /\ last.op = "lock"
  /\ get_address(S).some
  /\ \E p \in KmPasswords, q \in KmPasswords :
        /\ unlock(S, q).res.kind = "HMACVerificationFailed"
        /\ unlock(S, p).res = Ok(get_address(S).val)

\* The state of another, new KeyManager that has no keystore file of its own
\* and can read the file blob at other_path.
OtherKeyManager(blob) ==
  [fs |-> [p \in Paths |-> IF p = other_path THEN blob ELSE None],
   km |-> KeyManager_init]

Fits128(v) == Len(v) <= HALF_BITS \div 8

Built == acct.op = "build_user_operation"

\* The fees build_user_operation packs in the recorded call.
PackedFees ==
  resolve_fees(acct.self.val, acct.args.max_fee_per_gas,
               acct.args.max_priority_fee_per_gas, acct.args.rpc).res

\* C14 - Gas/fee range check: build_user_operation fails whenever one of
\* verification_gas_limit, call_gas_limit, max_priority_fee_per_gas and
\* max_fee_per_gas does not fit in 128 bits, and in every record it returns
\* the upper and lower halves of accountGasLimits and gasFees are the
\* values it was to pack.
C14_GasFeeRangeCheck ==
  Built /\ acct.out.kind = "ok" =>
    /\ Fits128(acct.args.verification_gas_limit)
    /\ Fits128(acct.args.call_gas_limit)
    /\ Fits128(PackedFees.val.maxPriorityFeePerGas)
    /\ Fits128(PackedFees.val.maxFeePerGas)
    /\ upper_half(acct.out.val.accountGasLimits) = acct.args.verification_gas_limit
    /\ lower_half(acct.out.val.accountGasLimits) = acct.args.call_gas_limit
    /\ upper_half(acct.out.val.gasFees) = PackedFees.val.maxPriorityFeePerGas
    /\ lower_half(acct.out.val.gasFees) = PackedFees.val.maxFeePerGas

\* The nonce and the fees of the recorded call were obtained.
Resolved ==
  /\ resolve_nonce(acct.self.val, acct.args.nonce, acct.args.rpc).res.kind = "ok"
  /\ PackedFees.kind = "ok"

\* C15 - Packing round trip: when verification_gas_limit, call_gas_limit and
\* the two fees are in 0 .. 2^128 - 1, build_user_operation returns a record
\* whose accountGasLimits is 32 bytes that decode (upper 16 bytes, lower 16
\* bytes) to (verification_gas_limit, call_gas_limit) and whose gasFees is
\* 32 bytes that decode to (maxPriorityFeePerGas, maxFeePerGas).
C15_PackingRoundTrip ==
  Built /\ Resolved
    /\ Fits128(acct.args.verification_gas_limit)
    /\ Fits128(acct.args.call_gas_limit)
    /\ Fits128(PackedFees.val.maxPriorityFeePerGas)
    /\ Fits128(PackedFees.val.maxFeePerGas) =>
      /\ acct.out.kind = "ok"
      /\ Len(acct.out.val.accountGasLimits) = UINT_LEN
      /\ Len(acct.out.val.gasFees) = UINT_LEN
      /\ upper_half(acct.out.val.accountGasLimits) = acct.args.verification_gas_limit
      /\ lower_half(acct.out.val.accountGasLimits) = acct.args.call_gas_limit
      /\ upper_half(acct.out.val.gasFees) = PackedFees.val.maxPriorityFeePerGas
      /\ lower_half(acct.out.val.gasFees) = PackedFees.val.maxFeePerGas

C15_Witness ==
  /\ Built /\ acct.out.kind = "ok"
  /\ acct.args.verification_gas_limit = Ones(16)
  /\ acct.args.call_gas_limit = <<1, 2>>
  /\ acct.args.max_priority_fee_per_gas = Some(<<1, 2>>)
  /\ acct.args.max_fee_per_gas = Some(Ones(16))
  /\ acct.out.val.accountGasLimits = Ones(16) \o Zeros(14) \o <<1, 2>>
  /\ acct.out.val.gasFees = Zeros(14) \o <<1, 2>> \o Ones(16)

\* The configuration the specification accepts.
ValidConfig(a) ==
  /\ 0 < a.threshold /\ a.threshold <= Len(a.owners)
  /\ IF a.guardians.some /\ a.guardians.val # <<>>
     THEN 0 < a.guardian_threshold
          /\ a.guardian_threshold <= Len(a.guardians.val)
     ELSE a.guardian_threshold = 0

\* C16 - Account identity validation: Account(...) succeeds if and only if
\* 0 < threshold <= |owners| and, with guardians, 0 < guardian_threshold <=
\* |guardians| and, without guardians, guardian_threshold = 0.
C16_AccountValidation ==
  acct.op = "Account" => (acct.out.kind = "ok" <=> ValidConfig(acct.args))

\* Two operation records differ in a field other than the signature.
DifferBesidesSignature(r1, r2) ==
  [r1 EXCEPT !.signature = <<>>] # [r2 EXCEPT !.signature = <<>>]

\* C17 - The hash commits to the full record: a record that differs from
\* the hashed one in a field other than signature is packed by
\* get_user_op_hash into a different byte string.
C17_HashPreimageInjective ==
  acct.op = "get_user_op_hash" /\ acct.out.kind = "ok" =>
    \A r \in UserOps :
      DifferBesidesSignature(r, acct.args.user_op) =>
        packed_data(acct.self.val, r) # packed_data(acct.self.val, acct.args.user_op)

\* C18 - Overrides are used verbatim: a nonce, max_fee_per_gas or
\* max_priority_fee_per_gas given to build_user_operation is the value in
\* the record it returns, the value 0 and a single supplied fee included;
\* get_nonce is called only when no nonce is given, the gas prices are
\* asked for only when a fee is missing, and with all three given no call
\* is made.
C18_OverridesVerbatim ==
  Built =>
    /\ "get_nonce" \in acct.calls => ~acct.args.nonce.some
    /\ "_get_gas_prices" \in acct.calls =>
         ~acct.args.max_fee_per_gas.some \/ ~acct.args.max_priority_fee_per_gas.some
    /\ acct.out.kind = "ok" =>
         /\ acct.args.nonce.some => acct.out.val.nonce = acct.args.nonce.val
         /\ acct.args.max_fee_per_gas.some /\ Fits128(acct.args.max_fee_per_gas.val) =>
              lower_half(acct.out.val.gasFees) = acct.args.max_fee_per_gas.val
         /\ acct.args.max_priority_fee_per_gas.some
              /\ Fits128(PackedFees.val.maxFeePerGas) =>
              upper_half(acct.out.val.gasFees) = acct.args.max_priority_fee_per_gas.val


\* Inputs of sign_userop of every length around 32 bytes.
UseropHashes == HashInputs \cup {<<>>, Zeros(31), Zeros(32), Zeros(33)}

\* C19 - sign_userop input contract: while the KeyManager is unlocked,
\* sign_userop returns a signature of 65 bytes for every input of 32 bytes
\* and raises its error for bad input (CryptoError, not the PermissionError
\* of a locked wallet) for every input of another length; the raw key, the
\* address, the unlocked flag and the files are unchanged in both cases.
C19_SignUseropInputContract ==
  /\ km.unlocked =>
       \A h \in UseropHashes :
         /\ Len(h) = 32 =>
              sign_userop(S, h).res.kind = "ok" /\ Len(sign_userop(S, h).res.val) = 65
         /\ Len(h) # 32 =>
              sign_userop(S, h).res = Raise("CryptoError", "Sign UserOperation failed")
         /\ sign_userop(S, h).km = km
         /\ sign_userop(S, h).fs = fs
  /\ last.op = "sign_userop" /\ last.kind = "ok" => Len(last.ret) = 65

\* The MAC stored in the decoded blob, and the MAC of salt || iv ||
\* ciphertext under the key derived from a password and the blob's salt.
StoredMac(raw) == SubSeq(raw, Len(raw) - MAC_LEN + 1, Len(raw))

MacOver(raw, key) == HMAC_SHA256(key.val, SubSeq(raw, 1, Len(raw) - MAC_LEN))

MacsEqual(raw, password) ==
  /\ raw.kind = "ok"
  /\ Len(raw.val) >= SALT_LEN + IV_LEN + MAC_LEN
  /\ StoredMac(raw.val)
       = MacOver(raw.val, derive_key(password, SubSeq(raw.val, 1, SALT_LEN), KEY_LEN))

MacsDiffer(raw, password) ==
  /\ raw.kind = "ok"
  /\ Len(raw.val) >= SALT_LEN + IV_LEN + MAC_LEN
  /\ derive_key(password, SubSeq(raw.val, 1, SALT_LEN), KEY_LEN).kind = "ok"
  /\ StoredMac(raw.val)
       # MacOver(raw.val, derive_key(password, SubSeq(raw.val, 1, SALT_LEN), KEY_LEN))

\* C20 - MAC before decryption: aes_decrypt returns a plaintext only if the
\* MAC of salt || iv || ciphertext under the key derived from the password
\* and the blob's salt equals the stored MAC; when the two differ the call
\* ends with HMACVerificationFailed and no plaintext, the outcome of the
\* comparison and not of the cipher step.
C20_MacBeforeDecrypt ==
  cipher.stage = "decrypted" =>
    /\ cipher.out.kind = "ok" => MacsEqual(b64decode(cipher.blob), cipher.p2)
    /\ MacsDiffer(b64decode(cipher.blob), cipher.p2) =>
         cipher.out = Raise("HMACVerificationFailed",
                            "HMAC check failed - data integrity violation.")

C20_Witness ==
  /\ cipher.stage = "decrypted"
  /\ ~Untampered
  /\ cipher.p2 = cipher.p
  /\ MacsDiffer(b64decode(cipher.blob), cipher.p2)
  /\ cipher.out.kind = "HMACVerificationFailed"


\* Base64 text as RFC 4648 defines it: whole groups of four characters of
\* the alphabet, the last group ending in at most two '='.
IsBase64(b) ==
  /\ Len(b) % 4 = 0
  /\ \A i \in 1..Len(b) :
       \/ b[i] \in 0..63
       \/ b[i] = PAD /\ i >= Len(b) - 1 /\ b[Len(b)] = PAD

FormatErrors ==
  {Raise("CryptoError", "Base64 decode failed (corrupted keystore)."),
   Raise("CryptoError", "Encrypted data too short or invalid.")}

\* C21 - Format rejection: aes_decrypt raises its format error (CryptoError
\* for base64 or length, not HMACVerificationFailed or WrongPassword)
\* whenever the input is not valid base64 or decodes to fewer than 64
\* bytes; an input that decodes to exactly 64 bytes passes the length check
\* and ends with the outcome of the MAC comparison.
C21_FormatRejection ==
  cipher.stage = "decrypted" =>
    /\ ~IsBase64(cipher.blob) => cipher.out \in FormatErrors
    /\ b64decode(cipher.blob).kind # "ok" => cipher.out \in FormatErrors
    /\ b64decode(cipher.blob).kind = "ok"
         /\ Len(b64decode(cipher.blob).val) < SALT_LEN + IV_LEN + MAC_LEN =>
           cipher.out \in FormatErrors
    /\ b64decode(cipher.blob).kind = "ok"
         /\ Len(b64decode(cipher.blob).val) = SALT_LEN + IV_LEN + MAC_LEN
         /\ Encodable(cipher.p2) =>
           cipher.out.kind \in {"ok", "HMACVerificationFailed"}

\* C27 - Error classification in decrypt: aes_decrypt raises WrongPassword
\* only after the MAC has verified, and a failure of derive_key during
\* decrypt is reported as the error of derive_key (CryptoError, KDF key
\* derivation failed), not as WrongPassword or HMACVerificationFailed.
C27_DecryptErrorClasses ==
  cipher.stage = "decrypted" =>
    /\ cipher.out.kind = "WrongPassword" =>
         /\ Encodable(cipher.p2)
         /\ MacsEqual(b64decode(cipher.blob), cipher.p2)
    /\ b64decode(cipher.blob).kind = "ok"
         /\ Len(b64decode(cipher.blob).val) >= SALT_LEN + IV_LEN + MAC_LEN
         /\ derive_key(cipher.p2, SubSeq(b64decode(cipher.blob).val, 1, SALT_LEN),
                       KEY_LEN).kind # "ok" =>
           cipher.out = derive_key(cipher.p2,
                                   SubSeq(b64decode(cipher.blob).val, 1, SALT_LEN),
                                   KEY_LEN)

\* C25 - Raw-key/lock-flag invariant: in every state of the KeyManager a
\* raw key is resident exactly when unlocked is true.
C25_KeyResidentIffUnlocked == km._private_key.some <=> km.unlocked

\* C26 - Identity consistency: whenever the KeyManager is unlocked, the
\* address it reports is the address of the resident raw key, and that key
\* is the one the keystore file holds (the file decrypts to it under some
\* password).
C26_IdentityConsistency ==
  km.unlocked =>
    /\ km._private_key.some /\ IsValidKey(km._private_key)
    /\ km.address = Some(AddressOf(km._private_key.val))
    /\ fs[storage_path].some
    /\ \E p \in KmPasswords :
         aes_decrypt_km(fs[storage_path].val, p) = Ok(km._private_key.val)

\* C24 - Config honours the requested path: after Config(config_path=p),
\* also when another instance already exists in the process, a following
\* add_network(name, cfg, save=True) writes the network to the file p and
\* get_network(name) returns cfg; networks of an earlier instance with
\* another path are not carried over: what Config(config_path=p) returns
\* holds the networks of the file p, or none when there is no such file.
C24_ConfigHonoursPath ==
  /\ config.last.op = "add_network" /\ config.last.save =>
       /\ config.fs[config.requested].some
       /\ DictHas(config.fs[config.requested].val, config.last.name)
       /\ DictGet(config.fs[config.requested].val, config.last.name)
            = NetworkConfig_to_dict(config.last.cfg)
       /\ get_network(ConfigS, config.last.name).res = Ok(config.last.cfg)
  /\ config.last.op = "Config" =>
       /\ config.obj.config_path = config.requested
       /\ config.obj._networks
            = Config_init_fresh(ConfigS, config.last.path).obj._networks

\* The accounts of a dict of networks, network by network.
AllAccounts(accounts) ==
  UNION {{accounts[n].val[i] : i \in 1..Len(accounts[n].val)} :
           n \in 1..Len(accounts)}

NoDuplicates(accounts) ==
  \A n \in 1..Len(accounts) :
    \A i, j \in 1..Len(accounts[n].val) :
      i # j => str_lower(accounts[n].val[i].contract_address)
                 # str_lower(accounts[n].val[j].contract_address)

ConfigOf(a) ==
  [contract_address |-> a.contract_address, owners |-> a.owners,
   threshold |-> a.threshold, guardians |-> a.guardians,
   guardian_threshold |-> a.guardian_threshold]

ConfigsOf(accounts) ==
  [n \in 1..Len(accounts) |->
     [key |-> accounts[n].key,
      val |-> [i \in 1..Len(accounts[n].val) |-> ConfigOf(accounts[n].val[i])]]]

FileReflects(w, address) ==
  /\ w.fs[wallet_storage_path].some
  /\ w.fs[wallet_storage_path].val.key_manager_address = address
  /\ ConfigsOf(w.fs[wallet_storage_path].val.accounts) = ConfigsOf(w.obj._accounts)

\* save() and then load() into a Wallet that holds no accounts, the
\* KeyManager being the same.
SavedAndLoaded(w, address) ==
  Wallet_load(
    [obj |-> [some |-> TRUE, _accounts |-> <<>>],
     fs |-> Wallet_save([obj |-> w.obj, fs |-> w.fs, address |-> address,
                         networks |-> <<>>], NoStr).fs,
     address |-> address, networks |-> <<>>],
    NoStr)

RoundTrip(w, address) ==
  LET before == [obj |-> w.obj, fs |-> w.fs, address |-> address, networks |-> <<>>]
      loaded == SavedAndLoaded(w, address)
      after == [before EXCEPT !.obj = loaded.obj]
  IN /\ loaded.res.kind = "ok"
     /\ ConfigsOf(loaded.obj._accounts) = ConfigsOf(w.obj._accounts)
     /\ list_networks(after) = list_networks(before)
     /\ \A n \in 1..Len(w.obj._accounts) :
          \A i \in 1..Len(w.obj._accounts[n].val) :
            /\ get_account(after, w.obj._accounts[n].key, None, i - 1).kind = "ok"
            /\ ConfigOf(get_account(after, w.obj._accounts[n].key, None, i - 1).val)
                 = ConfigOf(w.obj._accounts[n].val[i])

C28_SignerIsOwner ==
  wallet.obj.some /\ km.address.some =>
    \A a \in AllAccounts(wallet.obj._accounts) :
      InList(key_manager_address(km).val, a.owners)

\* The fields of an Account object that update_account was not given.
FieldsNotIn(kwargs) ==
  ({"network_name", "contract_address", "owners", "threshold", "guardians",
    "guardian_threshold", "bundler_url", "paymaster_url"} \ DOMAIN kwargs)
  \cup (IF "rpc_url" \in DOMAIN kwargs THEN {} ELSE {"_custom_rpc_url"})

\* C29 - update_account changes only what it is given: after a successful
\* update_account(network, address, **kwargs) every field of that account
\* not named in kwargs, a custom rpc_url included, is as before, the account
\* is at the same position of the list, every other account is unchanged and
\* the updated account satisfies the threshold validation; when the call
\* fails the accounts are as they were.
C29_UpdateChangesOnlyGiven ==
  [][wallet'.last.op = "update_account" =>
       IF wallet'.last.out.kind # "ok"
       THEN wallet'.obj._accounts = wallet.obj._accounts
       ELSE LET network_name == wallet'.last.network_name
                before == DictGet(wallet.obj._accounts, network_name)
                after == DictGet(wallet'.obj._accounts, network_name)
                i == FindAccount(before, wallet'.last.contract_address)
            IN /\ DictKeys(wallet'.obj._accounts) = DictKeys(wallet.obj._accounts)
               /\ \A n \in 1..Len(wallet.obj._accounts) :
                    wallet.obj._accounts[n].key # network_name =>
                      wallet'.obj._accounts[n] = wallet.obj._accounts[n]
               /\ Len(after) = Len(before)
               /\ \A j \in 1..Len(before) : j # i => after[j] = before[j]
               /\ \A f \in FieldsNotIn(wallet'.last.kwargs) : after[i][f] = before[i][f]
               /\ _validate_config(after[i]).kind = "ok"]_vars

\* C30 - Failed wallet operations change nothing: when add_account,
\* update_account or load raises, the map of networks to accounts is
\* exactly as before the call (no empty network entry added, nothing
\* cleared, nothing loaded in part) and the wallet file is not rewritten.
C30_FailedWalletOpsChangeNothing ==
  [][/\ wallet'.last.op \in {"add_account", "update_account", "load"}
     /\ wallet'.last.out.kind # "ok"
     => /\ wallet'.obj._accounts = wallet.obj._accounts
        /\ wallet'.fs = wallet.fs]_vars

=============================================================================
